---- MODULE Spec2Model ----
(***************************************************************************)
(* Data structures of dsa-data-structures: the LRU and LFU caches          *)
(* (caches), the skip list (advanced), union-find (graphs), the            *)
(* open-addressing hash table (hashing), the binary heap (heaps) and the   *)
(* monotonic queue with its sliding-window extremes (linear).              *)
(*                                                                         *)
(* One object is constructed (kind says which) and then driven by an       *)
(* arbitrary sequence of calls of its public methods; each structure has   *)
(* its own specification.  Every action is one whole method call, except   *)
(* where a property speaks of the steps inside a call: the loop of the     *)
(* sliding window and the two halves of LRUCache::put have a               *)
(* specification that follows the statements.  op and ret record the call  *)
(* that produced the current state and what it returned.  shadow,          *)
(* recency, uses, members, classes and bag are history variables: the      *)
(* reference key-value map, the order of the live keys by their most       *)
(* recent touch, the number of touches since a key was inserted, the set   *)
(* of inserted values, the partition generated by the united pairs and     *)
(* the multiset of pushed values.  They are updated from the calls alone,  *)
(* never from the object's fields.                                         *)
(***************************************************************************)
EXTENDS Integers, Sequences, FiniteSets, TLC

VARIABLES kind, lru, lfu, op, ret, shadow, recency, uses,
          sl, members, uf, classes, ht, hashes, heap, bag, mq

vars == <<kind, lru, lfu, op, ret, shadow, recency, uses,
          sl, members, uf, classes, ht, hashes, heap, bag, mq>>

\* the two caches and their history
caches == <<lru, lfu, recency, uses>>

\* the structures outside the caches module, and their history
others == <<sl, members, uf, classes, ht, hashes, heap, bag, mq>>

\* ------------------------------------------------------------------ bounds
\* largest capacity passed to new
MaxCap == 2
\* number of distinct keys the calls use
NumKeys == 3
\* largest frequency a key is driven to
MaxFreq == 2

Caps == 1..MaxCap
Keys == 1..NumKeys
\* V carries no trait bound and no method inspects a value: two distinct
\* values tell a replaced value from a stale one
Vals == {1, 2}

\* --------------------------------------------------------- map primitives
\* BTreeMap::new
EmptyMap == [x \in {} |-> 0]

\* BTreeMap::insert
MapInsert(m, k, v) == [x \in (DOMAIN m) \cup {k} |-> IF x = k THEN v ELSE m[x]]

\* BTreeMap::remove
MapRemove(m, k) == [x \in (DOMAIN m) \ {k} |-> m[x]]

\* Vec::remove(i), i counted from 0: the later elements shift left
VecRemove(s, i) == [j \in 1..(Len(s) - 1) |-> IF j <= i THEN s[j] ELSE s[j + 1]]

\* --------------------------------------------------------- return values
\* Option::None
None == [tag |-> "None", val |-> <<>>]

\* Option::Some(v)
Some(v) == [tag |-> "Some", val |-> <<v>>]

\* Option::Some((k, v))
SomePair(k, v) == [tag |-> "Some", val |-> <<k, v>>]

\* a method without a return value
Unit == [tag |-> "Unit", val |-> <<>>]

\* bool
Bool(b) == [tag |-> "Bool", val |-> <<IF b THEN 1 ELSE 0>>]

\* usize
Usize(n) == [tag |-> "Usize", val |-> <<n>>]

\* Vec<K>, or the items an iterator yields until it returns None
Items(s) == [tag |-> "Items", val |-> s]

\* ======================================================================
\* LRU cache
\* ======================================================================
\* Option<NonNull<Node>>::None
Null == 0

\* the addresses Box::new can return; put holds capacity + 1 nodes for a moment
NodeIds == 1..(MaxCap + 2)

\* Node::new
NewNode(key, value) == [key |-> key, value |-> value, prev |-> Null, next |-> Null]

\* no object has been constructed
NoObject == [object |-> "none"]

\* a failed assert!: the call unwinds and returns no value
Panic(msg) == [panic |-> msg]

\* whether a call panicked
IsPanic(r) == "panic" \in DOMAIN r

\* mutant of LRU_new: the capacity is not checked
LRU_new_unchecked(capacity) ==
    [capacity |-> capacity, map |-> EmptyMap, nodes |-> EmptyMap,
     head |-> Null, tail |-> Null]

\* LRUCache::new
LRU_new(capacity) ==
    IF capacity > 0
    THEN [capacity |-> capacity, map |-> EmptyMap, nodes |-> EmptyMap,
          head |-> Null, tail |-> Null]
    ELSE Panic("LRU cache capacity must be greater than 0")

\* LRUCache::len
LRU_len(c) == Cardinality(DOMAIN c.map)

\* LRUCache::is_empty
LRU_is_empty(c) == DOMAIN c.map = {}

\* LRUCache::is_full
LRU_is_full(c) == LRU_len(c) >= c.capacity

\* LRUCache::push_front
push_front(c, n) ==
    LET n1 == [c.nodes EXCEPT ![n].prev = Null, ![n].next = c.head]
        n2 == IF c.head # Null THEN [n1 EXCEPT ![c.head].prev = n] ELSE n1
    IN [c EXCEPT !.nodes = n2,
                 !.head = n,
                 !.tail = IF c.tail = Null THEN n ELSE c.tail]

\* mutant of unlink: the successor's prev pointer is not repaired
unlink_forward_only(c, n) ==
    LET prev == c.nodes[n].prev
        next == c.nodes[n].next
        n1 == IF prev # Null THEN [c.nodes EXCEPT ![prev].next = next] ELSE c.nodes
    IN [c EXCEPT !.nodes = n1,
                 !.head = IF prev # Null THEN c.head ELSE next,
                 !.tail = IF next # Null THEN c.tail ELSE prev]

\* LRUCache::unlink
unlink(c, n) ==
    LET prev == c.nodes[n].prev
        next == c.nodes[n].next
        n1 == IF prev # Null THEN [c.nodes EXCEPT ![prev].next = next] ELSE c.nodes
        n2 == IF next # Null THEN [n1 EXCEPT ![next].prev = prev] ELSE n1
    IN [c EXCEPT !.nodes = n2,
                 !.head = IF prev # Null THEN c.head ELSE next,
                 !.tail = IF next # Null THEN c.tail ELSE prev]

\* mutant of move_to_front: the node stays where it is
move_to_front_never(c, n) == c

\* LRUCache::move_to_front
move_to_front(c, n) ==
    IF n = c.head THEN c ELSE push_front(unlink(c, n), n)

\* mutant of evict_lru: the head is evicted instead of the tail
evict_lru_head(c) ==
    IF c.head # Null
    THEN LET head == c.head
             key == c.nodes[head].key
             c1 == unlink([c EXCEPT !.map = MapRemove(c.map, key)], head)
         IN [st |-> [c1 EXCEPT !.nodes = MapRemove(c1.nodes, head)],
             ret |-> SomePair(c.nodes[head].key, c.nodes[head].value)]
    ELSE [st |-> c, ret |-> None]

\* LRUCache::evict_lru; Box::from_raw frees the node
evict_lru(c) ==
    IF c.tail # Null
    THEN LET tail == c.tail
             key == c.nodes[tail].key
             c1 == unlink([c EXCEPT !.map = MapRemove(c.map, key)], tail)
         IN [st |-> [c1 EXCEPT !.nodes = MapRemove(c1.nodes, tail)],
             ret |-> SomePair(c.nodes[tail].key, c.nodes[tail].value)]
    ELSE [st |-> c, ret |-> None]

\* Box::into_raw(Box::new(..)): an address not in use
Alloc(c) == CHOOSE n \in NodeIds \ DOMAIN c.nodes :
                \A m \in NodeIds \ DOMAIN c.nodes : n <= m

\* mutant of LRU_put: no eviction when the map has outgrown the capacity
LRU_put_no_evict(c, key, value) ==
    IF key \in DOMAIN c.map
    THEN LET node_ptr == c.map[key]
         IN [st |-> move_to_front([c EXCEPT !.nodes[node_ptr].value = value], node_ptr),
             ret |-> None]
    ELSE LET node_ptr == Alloc(c)
             c1 == [c EXCEPT !.nodes = MapInsert(c.nodes, node_ptr, NewNode(key, value)),
                             !.map = MapInsert(c.map, key, node_ptr)]
         IN [st |-> push_front(c1, node_ptr), ret |-> None]

\* mutant of LRU_put: an existing key is moved to the front with its old value
LRU_put_stale(c, key, value) ==
    IF key \in DOMAIN c.map
    THEN [st |-> move_to_front(c, c.map[key]), ret |-> None]
    ELSE LET node_ptr == Alloc(c)
             c1 == [c EXCEPT !.nodes = MapInsert(c.nodes, node_ptr, NewNode(key, value)),
                             !.map = MapInsert(c.map, key, node_ptr)]
             c2 == push_front(c1, node_ptr)
         IN IF LRU_len(c2) > c2.capacity
            THEN evict_lru(c2)
            ELSE [st |-> c2, ret |-> None]

\* mutant of LRU_put: an existing key gets the new value but is not moved
LRU_put_no_move(c, key, value) ==
    IF key \in DOMAIN c.map
    THEN [st |-> [c EXCEPT !.nodes[c.map[key]].value = value], ret |-> None]
    ELSE LET node_ptr == Alloc(c)
             c1 == [c EXCEPT !.nodes = MapInsert(c.nodes, node_ptr, NewNode(key, value)),
                             !.map = MapInsert(c.map, key, node_ptr)]
             c2 == push_front(c1, node_ptr)
         IN IF LRU_len(c2) > c2.capacity
            THEN evict_lru(c2)
            ELSE [st |-> c2, ret |-> None]

\* LRUCache::put
LRU_put(c, key, value) ==
    IF key \in DOMAIN c.map
    THEN LET node_ptr == c.map[key]
         IN [st |-> move_to_front([c EXCEPT !.nodes[node_ptr].value = value], node_ptr),
             ret |-> None]
    ELSE LET node_ptr == Alloc(c)
             c1 == [c EXCEPT !.nodes = MapInsert(c.nodes, node_ptr, NewNode(key, value)),
                             !.map = MapInsert(c.map, key, node_ptr)]
             c2 == push_front(c1, node_ptr)
         IN IF LRU_len(c2) > c2.capacity
            THEN evict_lru(c2)
            ELSE [st |-> c2, ret |-> None]

\* LRUCache::get
LRU_get(c, key) ==
    IF key \in DOMAIN c.map
    THEN LET c1 == move_to_front(c, c.map[key])
         IN [st |-> c1, ret |-> Some(c1.nodes[c.map[key]].value)]
    ELSE [st |-> c, ret |-> None]

\* LRUCache::get_mut: the same steps as get; the result is a reference to the value
LRU_get_mut(c, key) ==
    IF key \in DOMAIN c.map
    THEN LET c1 == move_to_front(c, c.map[key])
         IN [st |-> c1, ret |-> Some(c1.nodes[c.map[key]].value)]
    ELSE [st |-> c, ret |-> None]

\* mutant of LRU_peek: the entry is moved to the front, as get does
LRU_peek_touching(c, key) ==
    IF key \in DOMAIN c.map
    THEN LET c1 == move_to_front(c, c.map[key])
         IN [st |-> c1, ret |-> Some(c1.nodes[c.map[key]].value)]
    ELSE [st |-> c, ret |-> None]

\* LRUCache::peek
LRU_peek(c, key) ==
    IF key \in DOMAIN c.map
    THEN [st |-> c, ret |-> Some(c.nodes[c.map[key]].value)]
    ELSE [st |-> c, ret |-> None]

\* LRUCache::contains
LRU_contains(c, key) == [st |-> c, ret |-> Bool(key \in DOMAIN c.map)]

\* mutant of LRU_remove: the node leaves the map but stays in the list
LRU_remove_no_unlink(c, key) ==
    IF key \in DOMAIN c.map
    THEN [st |-> [c EXCEPT !.map = MapRemove(c.map, key)],
          ret |-> Some(c.nodes[c.map[key]].value)]
    ELSE [st |-> c, ret |-> None]

\* LRUCache::remove; Box::from_raw frees the node
LRU_remove(c, key) ==
    IF key \in DOMAIN c.map
    THEN LET node_ptr == c.map[key]
             c1 == unlink([c EXCEPT !.map = MapRemove(c.map, key)], node_ptr)
         IN [st |-> [c1 EXCEPT !.nodes = MapRemove(c1.nodes, node_ptr)],
             ret |-> Some(c.nodes[node_ptr].value)]
    ELSE [st |-> c, ret |-> None]

\* LRUCache::clear: every node reachable from head is freed
RECURSIVE Reach(_, _, _)
Reach(nodes, current, fuel) ==
    IF current = Null \/ fuel = 0 THEN {}
    ELSE {current} \cup Reach(nodes, nodes[current].next, fuel - 1)

LRU_clear(c) ==
    LET freed == Reach(c.nodes, c.head, Cardinality(DOMAIN c.nodes))
    IN [st |-> [c EXCEPT !.nodes = [n \in (DOMAIN c.nodes) \ freed |-> c.nodes[n]],
                         !.map = EmptyMap, !.head = Null, !.tail = Null],
        ret |-> Unit]

\* the walk of keys() and of LRUIterator::next: follow next from head
RECURSIVE Walk(_, _, _)
Walk(nodes, current, fuel) ==
    IF current = Null \/ fuel = 0 THEN <<>>
    ELSE <<current>> \o Walk(nodes, nodes[current].next, fuel - 1)

\* the walk from tail along prev
RECURSIVE WalkBack(_, _, _)
WalkBack(nodes, current, fuel) ==
    IF current = Null \/ fuel = 0 THEN <<>>
    ELSE <<current>> \o WalkBack(nodes, nodes[current].prev, fuel - 1)

\* mutant of LRU_keys: the list is walked from the tail
LRU_keys_from_tail(c) ==
    LET w == WalkBack(c.nodes, c.tail, Cardinality(DOMAIN c.nodes))
    IN [st |-> c, ret |-> Items([i \in 1..Len(w) |-> c.nodes[w[i]].key])]

\* LRUCache::keys
LRU_keys(c) ==
    LET w == Walk(c.nodes, c.head, Cardinality(DOMAIN c.nodes))
    IN [st |-> c, ret |-> Items([i \in 1..Len(w) |-> c.nodes[w[i]].key])]

\* LRUCache::iter, drained with LRUIterator::next
LRU_iter(c) ==
    LET w == Walk(c.nodes, c.head, Cardinality(DOMAIN c.nodes))
    IN [st |-> c,
        ret |-> Items([i \in 1..Len(w) |-> <<c.nodes[w[i]].key, c.nodes[w[i]].value>>])]

\* ======================================================================
\* LFU cache
\* ======================================================================
\* LFUCache::new
LFU_new(capacity) ==
    IF capacity > 0
    THEN [capacity |-> capacity, min_freq |-> 0, cache |-> EmptyMap,
          freq_to_keys |-> EmptyMap, key_to_pos |-> EmptyMap]
    ELSE Panic("LFU cache capacity must be greater than 0")

\* LFUCache::len
LFU_len(c) == Cardinality(DOMAIN c.cache)

\* the loop `for i in from..keys.len() { key_to_pos.insert(keys[i], i) }`
RECURSIVE UpdatePositions(_, _, _)
UpdatePositions(key_to_pos, keys, from) ==
    IF from >= Len(keys) THEN key_to_pos
    ELSE UpdatePositions(MapInsert(key_to_pos, keys[from + 1], from), keys, from + 1)

\* mutant of remove_from_freq_list: the positions behind the key are not repaired
remove_from_freq_list_no_repair(c, key, freq) ==
    IF freq \in DOMAIN c.freq_to_keys /\ key \in DOMAIN c.key_to_pos
    THEN LET keys == c.freq_to_keys[freq]
             pos == c.key_to_pos[key]
         IN IF pos < Len(keys) /\ keys[pos + 1] = key
            THEN [c EXCEPT !.freq_to_keys = MapInsert(c.freq_to_keys, freq, VecRemove(keys, pos))]
            ELSE c
    ELSE c

\* LFUCache::remove_from_freq_list
remove_from_freq_list(c, key, freq) ==
    IF freq \in DOMAIN c.freq_to_keys /\ key \in DOMAIN c.key_to_pos
    THEN LET keys == c.freq_to_keys[freq]
             pos == c.key_to_pos[key]
         IN IF pos < Len(keys) /\ keys[pos + 1] = key
            THEN LET keys1 == VecRemove(keys, pos)
                 IN [c EXCEPT !.freq_to_keys = MapInsert(c.freq_to_keys, freq, keys1),
                              !.key_to_pos = UpdatePositions(c.key_to_pos, keys1, pos)]
            ELSE c
    ELSE c

\* mutant of PushKey: the key is put at the front of the bucket (insert(0, key))
PushKey_front(c, key, freq) ==
    LET keys == IF freq \in DOMAIN c.freq_to_keys THEN c.freq_to_keys[freq] ELSE <<>>
        keys1 == <<key>> \o keys
    IN [c EXCEPT !.freq_to_keys = MapInsert(c.freq_to_keys, freq, keys1),
                 !.key_to_pos = UpdatePositions(c.key_to_pos, keys1, 0)]

\* freq_to_keys.entry(freq).or_insert_with(Vec::new).push(key);
\* key_to_pos.insert(key, len - 1)
PushKey(c, key, freq) ==
    LET keys == IF freq \in DOMAIN c.freq_to_keys THEN c.freq_to_keys[freq] ELSE <<>>
        keys1 == Append(keys, key)
    IN [c EXCEPT !.freq_to_keys = MapInsert(c.freq_to_keys, freq, keys1),
                 !.key_to_pos = MapInsert(c.key_to_pos, key, Len(keys1) - 1)]

\* mutant of increment_frequency: the key goes to the front of its new bucket
increment_frequency_front(c, key) ==
    LET old_freq == c.cache[key][2]
        new_freq == old_freq + 1
        c1 == [c EXCEPT !.cache[key] = <<c.cache[key][1], new_freq>>]
        c2 == remove_from_freq_list(c1, key, old_freq)
        keys == IF new_freq \in DOMAIN c2.freq_to_keys THEN c2.freq_to_keys[new_freq] ELSE <<>>
        keys1 == <<key>> \o keys
        c3 == [c2 EXCEPT !.freq_to_keys = MapInsert(c2.freq_to_keys, new_freq, keys1),
                         !.key_to_pos = UpdatePositions(c2.key_to_pos, keys1, 0)]
        emptied == IF old_freq \in DOMAIN c3.freq_to_keys
                   THEN c3.freq_to_keys[old_freq] = <<>> ELSE TRUE
    IN IF old_freq = c3.min_freq /\ emptied
       THEN [c3 EXCEPT !.min_freq = new_freq]
       ELSE c3

\* mutant of increment_frequency: min_freq is not advanced
increment_frequency_stale(c, key) ==
    LET old_freq == c.cache[key][2]
        new_freq == old_freq + 1
        c1 == [c EXCEPT !.cache[key] = <<c.cache[key][1], new_freq>>]
        c2 == remove_from_freq_list(c1, key, old_freq)
    IN PushKey(c2, key, new_freq)

\* LFUCache::increment_frequency
increment_frequency(c, key) ==
    LET old_freq == c.cache[key][2]
        new_freq == old_freq + 1
        c1 == [c EXCEPT !.cache[key] = <<c.cache[key][1], new_freq>>]
        c2 == remove_from_freq_list(c1, key, old_freq)
        c3 == PushKey(c2, key, new_freq)
        emptied == IF old_freq \in DOMAIN c3.freq_to_keys
                   THEN c3.freq_to_keys[old_freq] = <<>> ELSE TRUE
    IN IF old_freq = c3.min_freq /\ emptied
       THEN [c3 EXCEPT !.min_freq = new_freq]
       ELSE c3

\* mutant of evict: the newest key of the bucket is evicted (Vec::pop)
evict_newest(c) ==
    IF c.min_freq \in DOMAIN c.freq_to_keys /\ c.freq_to_keys[c.min_freq] # <<>>
    THEN LET keys == c.freq_to_keys[c.min_freq]
             evict_key == keys[Len(keys)]
             keys1 == SubSeq(keys, 1, Len(keys) - 1)
         IN [c EXCEPT !.freq_to_keys = MapInsert(c.freq_to_keys, c.min_freq, keys1),
                      !.key_to_pos = MapRemove(c.key_to_pos, evict_key),
                      !.cache = MapRemove(c.cache, evict_key)]
    ELSE c

\* LFUCache::evict
evict(c) ==
    IF c.min_freq \in DOMAIN c.freq_to_keys /\ c.freq_to_keys[c.min_freq] # <<>>
    THEN LET keys == c.freq_to_keys[c.min_freq]
             evict_key == keys[1]
             keys1 == VecRemove(keys, 0)
         IN [c EXCEPT !.freq_to_keys = MapInsert(c.freq_to_keys, c.min_freq, keys1),
                      !.key_to_pos = MapRemove(UpdatePositions(c.key_to_pos, keys1, 0), evict_key),
                      !.cache = MapRemove(c.cache, evict_key)]
    ELSE c

\* LFUCache::get
LFU_get(c, key) ==
    IF key \notin DOMAIN c.cache
    THEN [st |-> c, ret |-> None]
    ELSE LET c1 == increment_frequency(c, key)
         IN [st |-> c1,
             ret |-> IF key \in DOMAIN c1.cache THEN Some(c1.cache[key][1]) ELSE None]

\* mutant of LFU_get_mut: the frequency is not incremented
LFU_get_mut_uncounted(c, key) ==
    IF key \notin DOMAIN c.cache
    THEN [st |-> c, ret |-> None]
    ELSE [st |-> c, ret |-> Some(c.cache[key][1])]

\* LFUCache::get_mut: the same steps as get; the result is a reference to the value
LFU_get_mut(c, key) ==
    IF key \notin DOMAIN c.cache
    THEN [st |-> c, ret |-> None]
    ELSE LET c1 == increment_frequency(c, key)
         IN [st |-> c1,
             ret |-> IF key \in DOMAIN c1.cache THEN Some(c1.cache[key][1]) ELSE None]

\* mutant of LFU_put: eviction only once the capacity is exceeded (> for >=)
LFU_put_late_evict(c, key, value) ==
    IF c.capacity = 0 THEN [st |-> c, ret |-> Unit]
    ELSE IF key \in DOMAIN c.cache
    THEN [st |-> increment_frequency([c EXCEPT !.cache[key] = <<value, c.cache[key][2]>>], key),
          ret |-> Unit]
    ELSE LET c1 == IF LFU_len(c) > c.capacity THEN evict(c) ELSE c
             c2 == [c1 EXCEPT !.cache = MapInsert(c1.cache, key, <<value, 1>>)]
             c3 == PushKey(c2, key, 1)
         IN [st |-> [c3 EXCEPT !.min_freq = 1], ret |-> Unit]

\* mutant of LFU_put: the new key is inserted first and the eviction follows
LFU_put_evict_after(c, key, value) ==
    IF c.capacity = 0 THEN [st |-> c, ret |-> Unit]
    ELSE IF key \in DOMAIN c.cache
    THEN [st |-> increment_frequency([c EXCEPT !.cache[key] = <<value, c.cache[key][2]>>], key),
          ret |-> Unit]
    ELSE LET c2 == [c EXCEPT !.cache = MapInsert(c.cache, key, <<value, 1>>)]
             c3 == PushKey(c2, key, 1)
             c4 == [c3 EXCEPT !.min_freq = 1]
         IN [st |-> IF LFU_len(c4) > c4.capacity THEN evict(c4) ELSE c4, ret |-> Unit]

\* LFUCache::put
LFU_put(c, key, value) ==
    IF c.capacity = 0 THEN [st |-> c, ret |-> Unit]
    ELSE IF key \in DOMAIN c.cache
    THEN [st |-> increment_frequency([c EXCEPT !.cache[key] = <<value, c.cache[key][2]>>], key),
          ret |-> Unit]
    ELSE LET c1 == IF LFU_len(c) >= c.capacity THEN evict(c) ELSE c
             c2 == [c1 EXCEPT !.cache = MapInsert(c1.cache, key, <<value, 1>>)]
             c3 == PushKey(c2, key, 1)
         IN [st |-> [c3 EXCEPT !.min_freq = 1], ret |-> Unit]

\* LFUCache::contains
LFU_contains(c, key) == [st |-> c, ret |-> Bool(key \in DOMAIN c.cache)]

\* mutant of LFU_remove: the key stays in its frequency bucket
LFU_remove_keep_bucket(c, key) ==
    IF key \in DOMAIN c.cache
    THEN [st |-> [c EXCEPT !.cache = MapRemove(c.cache, key),
                           !.key_to_pos = MapRemove(c.key_to_pos, key)],
          ret |-> Some(c.cache[key][1])]
    ELSE [st |-> c, ret |-> None]

\* LFUCache::remove
LFU_remove(c, key) ==
    IF key \in DOMAIN c.cache
    THEN LET value == c.cache[key][1]
             freq == c.cache[key][2]
             c1 == remove_from_freq_list([c EXCEPT !.cache = MapRemove(c.cache, key)], key, freq)
         IN [st |-> [c1 EXCEPT !.key_to_pos = MapRemove(c1.key_to_pos, key)],
             ret |-> Some(value)]
    ELSE [st |-> c, ret |-> None]

\* LFUCache::clear
LFU_clear(c) ==
    [st |-> [c EXCEPT !.cache = EmptyMap, !.freq_to_keys = EmptyMap,
                      !.key_to_pos = EmptyMap, !.min_freq = 0],
     ret |-> Unit]

\* mutant of LFU_frequency: an absent key has frequency 0 (unwrap_or(0))
LFU_frequency_zero(c, key) ==
    [st |-> c,
     ret |-> IF key \in DOMAIN c.cache THEN Usize(c.cache[key][2]) ELSE Usize(0)]

\* LFUCache::frequency
LFU_frequency(c, key) ==
    [st |-> c,
     ret |-> IF key \in DOMAIN c.cache THEN Usize(c.cache[key][2]) ELSE None]

\* ======================================================================
\* History variables
\* ======================================================================
\* capacity(): the argument of new, which no method changes
Capacity == IF kind = "lru" THEN lru.capacity ELSE lfu.capacity

\* position of key k in the sequence s (0 when absent)
PosIn(s, k) == IF \E i \in 1..Len(s) : s[i] = k
               THEN CHOOSE i \in 1..Len(s) : s[i] = k
               ELSE 0

\* s without k
Without(s, k) == SelectSeq(s, LAMBDA x : x # k)

\* a touch of k makes it the most recent key
Touch(s, k) == Append(Without(s, k), k)

\* the key the eviction policy names: LRU, the key touched longest ago;
\* LFU, among the keys touched least often the one touched longest ago
PolicyVictim ==
    IF kind = "lru" THEN recency[1]
    ELSE LET least == {k \in DOMAIN uses : \A j \in DOMAIN uses : uses[k] <= uses[j]}
         IN recency[CHOOSE i \in 1..Len(recency) :
                        /\ recency[i] \in least
                        /\ \A j \in 1..(i - 1) : recency[j] \notin least]

\* the call that is being made
Call(name, k, v) ==
    [name |-> name, key |-> k, val |-> v,
     hit |-> k \in DOMAIN shadow,
     full |-> Cardinality(DOMAIN shadow) = Capacity]

\* put(k, v) on the reference map
ShadowPut(k, v) ==
    LET evicting == k \notin DOMAIN shadow /\ Cardinality(DOMAIN shadow) = Capacity
        victim == PolicyVictim
    IN /\ shadow' = MapInsert(IF evicting THEN MapRemove(shadow, victim) ELSE shadow, k, v)
       /\ recency' = Touch(IF evicting THEN Without(recency, victim) ELSE recency, k)
       /\ uses' = IF kind = "lru" THEN uses
                  ELSE IF k \in DOMAIN shadow THEN [uses EXCEPT ![k] = @ + 1]
                  ELSE MapInsert(IF evicting THEN MapRemove(uses, victim) ELSE uses, k, 1)

\* get(k) / get_mut(k) on the reference map
ShadowGet(k) ==
    /\ shadow' = shadow
    /\ recency' = IF k \in DOMAIN shadow THEN Touch(recency, k) ELSE recency
    /\ uses' = IF kind = "lfu" /\ k \in DOMAIN shadow
               THEN [uses EXCEPT ![k] = @ + 1] ELSE uses

\* remove(k) on the reference map
ShadowRemove(k) ==
    /\ shadow' = MapRemove(shadow, k)
    /\ recency' = Without(recency, k)
    /\ uses' = MapRemove(uses, k)

\* clear() on the reference map
ShadowClear ==
    /\ shadow' = EmptyMap
    /\ recency' = <<>>
    /\ uses' = EmptyMap

\* no BinaryHeap and no sliding window is under test
NoHeapNoQueue ==
    /\ heap = NoObject
    /\ bag = <<>>
    /\ mq = NoObject

\* no HashTable is under test
NoTable ==
    /\ ht = NoObject
    /\ hashes = EmptyMap

\* the structures outside the caches module are not under test
NoOthers ==
    /\ sl = NoObject
    /\ members = {}
    /\ uf = NoObject
    /\ classes = {}
    /\ NoTable
    /\ NoHeapNoQueue

\* ======================================================================
\* The calls
\* ======================================================================
Init ==
    /\ kind \in {"lru", "lfu"}
    /\ \E capacity \in Caps :
          /\ lru = LRU_new(capacity)
          /\ lfu = LFU_new(capacity)
    /\ op = [name |-> "new", key |-> 0, val |-> 0, hit |-> FALSE, full |-> FALSE]
    /\ ret = Unit
    /\ shadow = EmptyMap
    /\ recency = <<>>
    /\ uses = EmptyMap
    /\ NoOthers

LRUStep(name, k, v, r) ==
    /\ kind = "lru"
    /\ lru' = r.st
    /\ ret' = r.ret
    /\ op' = Call(name, k, v)
    /\ UNCHANGED <<kind, lfu, others>>

LFUStep(name, k, v, r) ==
    /\ kind = "lfu"
    /\ lfu' = r.st
    /\ ret' = r.ret
    /\ op' = Call(name, k, v)
    /\ UNCHANGED <<kind, lru, others>>

LRUPut(k, v) == LRUStep("put", k, v, LRU_put(lru, k, v)) /\ ShadowPut(k, v)

LRUGet(k) == LRUStep("get", k, 0, LRU_get(lru, k)) /\ ShadowGet(k)

LRUGetMut(k) == LRUStep("get_mut", k, 0, LRU_get_mut(lru, k)) /\ ShadowGet(k)

LRUPeek(k) ==
    LRUStep("peek", k, 0, LRU_peek(lru, k)) /\ UNCHANGED <<shadow, recency, uses>>

LRUContains(k) ==
    LRUStep("contains", k, 0, LRU_contains(lru, k)) /\ UNCHANGED <<shadow, recency, uses>>

LRURemove(k) == LRUStep("remove", k, 0, LRU_remove(lru, k)) /\ ShadowRemove(k)

LRUClear == LRUStep("clear", 0, 0, LRU_clear(lru)) /\ ShadowClear

LRUKeys ==
    LRUStep("keys", 0, 0, LRU_keys(lru)) /\ UNCHANGED <<shadow, recency, uses>>

LRUIter ==
    LRUStep("iter", 0, 0, LRU_iter(lru)) /\ UNCHANGED <<shadow, recency, uses>>

LRULen ==
    LRUStep("len", 0, 0, [st |-> lru, ret |-> Usize(LRU_len(lru))])
    /\ UNCHANGED <<shadow, recency, uses>>

LRUIsFull ==
    LRUStep("is_full", 0, 0, [st |-> lru, ret |-> Bool(LRU_is_full(lru))])
    /\ UNCHANGED <<shadow, recency, uses>>

\* the frequency counter is a usize; the model stops counting at MaxFreq
CanCount(k) ==
    kind = "lfu" /\ (k \in DOMAIN lfu.cache => lfu.cache[k][2] < MaxFreq)

LFUPut(k, v) ==
    CanCount(k) /\ LFUStep("put", k, v, LFU_put(lfu, k, v)) /\ ShadowPut(k, v)

LFUGet(k) ==
    CanCount(k) /\ LFUStep("get", k, 0, LFU_get(lfu, k)) /\ ShadowGet(k)

LFUGetMut(k) ==
    CanCount(k) /\ LFUStep("get_mut", k, 0, LFU_get_mut(lfu, k)) /\ ShadowGet(k)

LFUContains(k) ==
    LFUStep("contains", k, 0, LFU_contains(lfu, k)) /\ UNCHANGED <<shadow, recency, uses>>

LFURemove(k) == LFUStep("remove", k, 0, LFU_remove(lfu, k)) /\ ShadowRemove(k)

LFUClear == LFUStep("clear", 0, 0, LFU_clear(lfu)) /\ ShadowClear

LFUFrequency(k) ==
    LFUStep("frequency", k, 0, LFU_frequency(lfu, k)) /\ UNCHANGED <<shadow, recency, uses>>

LFULen ==
    LFUStep("len", 0, 0, [st |-> lfu, ret |-> Usize(LFU_len(lfu))])
    /\ UNCHANGED <<shadow, recency, uses>>

Next ==
    \/ \E k \in Keys, v \in Vals : LRUPut(k, v)
    \/ \E k \in Keys : LRUGet(k)
    \/ \E k \in Keys : LRUGetMut(k)
    \/ \E k \in Keys : LRUPeek(k)
    \/ \E k \in Keys : LRUContains(k)
    \/ \E k \in Keys : LRURemove(k)
    \/ LRUClear
    \/ LRUKeys
    \/ LRUIter
    \/ LRULen
    \/ LRUIsFull
    \/ \E k \in Keys, v \in Vals : LFUPut(k, v)
    \/ \E k \in Keys : LFUGet(k)
    \/ \E k \in Keys : LFUGetMut(k)
    \/ \E k \in Keys : LFUContains(k)
    \/ \E k \in Keys : LFURemove(k)
    \/ LFUClear
    \/ \E k \in Keys : LFUFrequency(k)
    \/ LFULen

Spec == Init /\ [][Next]_vars

\* ----------------------------------------------------------------------
\* The LRU list with room for three and more entries, so that an entry can
\* sit between two others
\* ----------------------------------------------------------------------
ListCaps == 1..(MaxCap + 1)

InitList ==
    /\ kind = "lru"
    /\ \E capacity \in ListCaps :
          /\ lru = LRU_new(capacity)
          /\ lfu = LFU_new(capacity)
    /\ op = [name |-> "new", key |-> 0, val |-> 0, hit |-> FALSE, full |-> FALSE]
    /\ ret = Unit
    /\ shadow = EmptyMap
    /\ recency = <<>>
    /\ uses = EmptyMap
    /\ NoOthers

\* where the entry of k sits when remove(k) is called
RemoveCase(k) ==
    IF k \notin DOMAIN lru.map THEN "remove"
    ELSE IF lru.map[k] = lru.head /\ lru.map[k] = lru.tail THEN "remove_only"
    ELSE IF lru.map[k] = lru.head THEN "remove_head"
    ELSE IF lru.map[k] = lru.tail THEN "remove_tail"
    ELSE "remove_middle"

ListRemove(k) == LRUStep(RemoveCase(k), k, 0, LRU_remove(lru, k)) /\ ShadowRemove(k)

NextList ==
    \/ \E k \in Keys, v \in Vals : LRUPut(k, v)
    \/ \E k \in Keys : LRUGet(k)
    \/ \E k \in Keys : ListRemove(k)
    \/ LRUClear

SpecList == InitList /\ [][NextList]_vars

\* ----------------------------------------------------------------------
\* Construction: new(capacity) with any capacity, 0 included
\* ----------------------------------------------------------------------
InitNew ==
    /\ kind = "none"
    /\ lru = NoObject
    /\ lfu = NoObject
    /\ op = [name |-> "none", key |-> 0, val |-> 0, hit |-> FALSE, full |-> FALSE]
    /\ ret = Unit
    /\ shadow = EmptyMap
    /\ recency = <<>>
    /\ uses = EmptyMap
    /\ NoOthers

NewLRU(capacity) ==
    /\ kind = "none"
    /\ LET r == LRU_new(capacity)
       IN IF IsPanic(r)
          THEN kind' = "panic" /\ lru' = lru
          ELSE kind' = "lru" /\ lru' = r
    /\ op' = [name |-> "new", key |-> 0, val |-> capacity, hit |-> FALSE, full |-> FALSE]
    /\ UNCHANGED <<lfu, ret, shadow, recency, uses, others>>

NewLFU(capacity) ==
    /\ kind = "none"
    /\ LET r == LFU_new(capacity)
       IN IF IsPanic(r)
          THEN kind' = "panic" /\ lfu' = lfu
          ELSE kind' = "lfu" /\ lfu' = r
    /\ op' = [name |-> "new", key |-> 0, val |-> capacity, hit |-> FALSE, full |-> FALSE]
    /\ UNCHANGED <<lru, ret, shadow, recency, uses, others>>

NextNew ==
    \/ \E capacity \in 0..MaxCap : NewLRU(capacity)
    \/ \E capacity \in 0..MaxCap : NewLFU(capacity)
    \/ \E k \in Keys, v \in Vals : LRUPut(k, v)
    \/ \E k \in Keys : LRUGet(k)
    \/ \E k \in Keys : LRURemove(k)
    \/ LRUClear
    \/ \E k \in Keys, v \in Vals : LFUPut(k, v)
    \/ \E k \in Keys : LFUGet(k)
    \/ \E k \in Keys : LFURemove(k)
    \/ LFUClear

SpecNew == InitNew /\ [][NextNew]_vars

\* ======================================================================
\* Properties
\* ======================================================================
\* the call that led here was put of a key that was absent, on a full cache
EvictingPut(o) == o.name = "put" /\ ~o.hit /\ o.full

\* the calls that take &self
ReadOnly == {"peek", "contains", "keys", "iter", "len", "is_full", "frequency"}

\* the lookups that can miss
Lookups == {"get", "get_mut", "remove", "peek", "frequency"}

\* C1: LRU cache: after every call of put, get, get_mut, peek, contains,
\* remove and clear, for every capacity >= 1, len() <= capacity().
C1_LRULenWithinCapacity ==
    kind = "lru" => LRU_len(lru) <= lru.capacity

\* an LRU put of a new key on a full cache has returned, and the cache is full
C1_Witness ==
    kind = "lru" /\ EvictingPut(op) /\ LRU_len(lru) = lru.capacity

\* C2: LFU cache: after every call of put, get, get_mut, contains, frequency,
\* remove and clear, for every capacity >= 1, len() <= capacity().
C2_LFULenWithinCapacity ==
    kind = "lfu" => LFU_len(lfu) <= lfu.capacity

\* an LFU put of a new key on a full cache has returned; an earlier call left
\* an emptied bucket behind
C2_Witness ==
    /\ kind = "lfu" /\ EvictingPut(op) /\ LFU_len(lfu) = lfu.capacity
    /\ \E f \in DOMAIN lfu.freq_to_keys : lfu.freq_to_keys[f] = <<>>

\* C3: LRU cache: a put of an absent key on a full cache evicts the key whose
\* most recent touch (put, get, get_mut; not peek, not contains) is the oldest.
C3_LRUEvictsLeastRecentlyTouched ==
    [][(kind = "lru" /\ EvictingPut(op'))
         => /\ ret'.tag = "Some"
            /\ ret'.val[1] = recency[1]
            /\ DOMAIN lru'.map = ((DOMAIN lru.map) \ {recency[1]}) \cup {op'.key}]_vars

\* an LRU put of a new key on a full cache of capacity >= 2 returned the
\* entry it evicted
C3_Witness ==
    /\ kind = "lru" /\ EvictingPut(op) /\ ret.tag = "Some"
    /\ lru.capacity >= 2 /\ ret.val[1] \notin DOMAIN lru.map

\* C4: LFU cache: a put of an absent key on a full cache evicts exactly one
\* key; its frequency is the minimum over the keys present before the call,
\* and among the keys of that frequency it entered the bucket earliest.
C4_LFUEvictsLeastFrequentOldest ==
    [][(kind = "lfu" /\ EvictingPut(op'))
         => LET gone == (DOMAIN lfu.cache) \ (DOMAIN lfu'.cache)
            IN /\ Cardinality(gone) = 1
               /\ DOMAIN lfu'.cache = ((DOMAIN lfu.cache) \ gone) \cup {op'.key}
               /\ \A e \in gone, j \in DOMAIN lfu.cache :
                     /\ lfu.cache[e][2] <= lfu.cache[j][2]
                     /\ lfu.cache[e][2] = lfu.cache[j][2]
                           => PosIn(recency, e) <= PosIn(recency, j)]_vars

\* an LFU put evicted a key while a key of a higher frequency stayed
C4_Witness ==
    /\ kind = "lfu" /\ EvictingPut(op) /\ LFU_len(lfu) = lfu.capacity
    /\ \E k \in DOMAIN lfu.cache : lfu.cache[k][2] > 1

C6_LRUPutReturn ==
    [][(kind = "lru" /\ op'.name = "put")
         => LET k == op'.key
                evicts == k \notin DOMAIN lru.map /\ LRU_len(lru) = lru.capacity
            IN /\ ret'.tag \in {"Some", "None"}
               /\ ret'.tag = "Some" <=> evicts
               /\ ret'.tag = "Some"
                     => /\ ret'.val = <<lru.nodes[lru.tail].key, shadow[lru.nodes[lru.tail].key]>>
                        /\ ret'.val[1] # k
                        /\ ret'.val[1] \notin DOMAIN lru'.map
               /\ ret'.tag = "None"
                     => \A j \in Keys \ {k} : j \in DOMAIN lru.map <=> j \in DOMAIN lru'.map]_vars

\* an LRU put returned an evicted entry
C6_Witness ==
    kind = "lru" /\ op.name = "put" /\ ret.tag = "Some" /\ Len(ret.val) = 2

\* C7: LRU put(k, v) on a live key replaces its value, makes k the most
\* recently used entry, returns None, leaves len() and the key set unchanged
\* and evicts nothing, also on a full cache.
C7_LRUPutExisting ==
    [][(kind = "lru" /\ op'.name = "put" /\ op'.key \in DOMAIN lru.map)
         => /\ ret' = None
            /\ LRU_peek(lru', op'.key).ret = Some(op'.val)
            /\ LRU_keys(lru').ret.val[1] = op'.key
            /\ LRU_len(lru') = LRU_len(lru)
            /\ DOMAIN lru'.map = DOMAIN lru.map
            /\ \A j \in (DOMAIN lru.map) \ {op'.key} :
                  LRU_peek(lru', j).ret = LRU_peek(lru, j).ret]_vars

\* an LRU put updated a live key of a full cache of capacity 2
C7_Witness ==
    /\ kind = "lru" /\ op.name = "put" /\ op.hit /\ op.full
    /\ lru.capacity >= 2 /\ ret = None

\* C8: LFU cache: frequency(k) of a live key is 1 plus the number of
\* successful get, get_mut and put-on-existing-key calls for k since k was
\* last inserted as a new key; it is >= 1.
C8_LFUFrequencyCounts ==
    kind = "lfu" =>
        /\ DOMAIN uses = DOMAIN lfu.cache
        /\ \A k \in Keys :
              LFU_frequency(lfu, k).ret =
                  IF k \in DOMAIN uses THEN Usize(uses[k]) ELSE None
        /\ \A k \in DOMAIN lfu.cache : lfu.cache[k][2] >= 1

\* a key was inserted into an LFU cache next to a key that was accessed
\* after its own insertion
C8_Witness ==
    /\ kind = "lfu" /\ op.name = "put" /\ ~op.hit
    /\ uses[op.key] = 1
    /\ \E k \in DOMAIN uses : uses[k] >= 2

\* C9: the read-only queries (LRU peek, contains, keys, iter, len, is_full;
\* LFU frequency, contains, len) leave every field of the cache unchanged.
C9_ReadOnlyQueries ==
    [][op'.name \in ReadOnly => (lru' = lru /\ lfu' = lfu)]_vars

\* peek found the entry at the tail of a full LRU cache of capacity >= 2,
\* the entry the next evicting put removes
C9_Witness ==
    /\ kind = "lru" /\ op.name = "peek" /\ ret.tag = "Some"
    /\ lru.capacity >= 2 /\ LRU_is_full(lru)
    /\ lru.nodes[lru.tail].key = op.key

\* C10: get, get_mut, remove, LRU peek and LFU frequency of an absent key
\* return None and leave every field of the cache unchanged.
C10_LookupMiss ==
    [][(/\ op'.name \in Lookups
        /\ op'.key \notin (IF kind = "lru" THEN DOMAIN lru.map ELSE DOMAIN lfu.cache))
         => (ret' = None /\ lru' = lru /\ lfu' = lfu)]_vars

\* frequency missed on a non-empty LFU cache
C10_Witness ==
    /\ kind = "lfu" /\ op.name = "frequency" /\ ~op.hit
    /\ ret = None /\ LFU_len(lfu) >= 1

\* C11: on both caches get(k) right after put(k, v) returns Some(v), with
\* room and on a full cache, also at capacity 1: the key just put is never
\* the victim of its own put.
C11_PutThenGet ==
    [][op'.name = "put"
         => (IF kind = "lru" THEN LRU_get(lru', op'.key).ret
                             ELSE LFU_get(lfu', op'.key).ret) = Some(op'.val)]_vars

\* a put of a new key replaced the only entry of an LFU cache of capacity 1
C11_Witness ==
    /\ kind = "lfu" /\ EvictingPut(op) /\ lfu.capacity = 1
    /\ DOMAIN lfu.cache = {op.key}

\* s in the opposite order
Reverse(s) == [i \in 1..Len(s) |-> s[Len(s) + 1 - i]]

\* C12: LRU keys() is the live keys, each once, most recently touched first;
\* iter() yields the same keys in the same order with their current values
\* and then ends; both have len() items.
C12_LRUKeysOrder ==
    kind = "lru" =>
        LET mru == Reverse(recency)
        IN /\ LRU_keys(lru).ret = Items(mru)
           /\ LRU_iter(lru).ret = Items([i \in 1..Len(mru) |-> <<mru[i], shadow[mru[i]]>>])
           /\ Len(LRU_keys(lru).ret.val) = LRU_len(lru)
           /\ Len(LRU_iter(lru).ret.val) = LRU_len(lru)

\* a get moved an entry of an LRU cache with two or more entries to the front
C12_Witness ==
    /\ kind = "lru" /\ op.name = "get" /\ op.hit
    /\ LRU_len(lru) >= 2
    /\ LRU_keys(lru).ret.val[1] = op.key

\* C14: LFU cache: when several keys share the minimum frequency at an
\* eviction, the evicted key is the one among them whose most recent access
\* (insertion, get, get_mut, put update) is the oldest.
C14_LFUTieBreak ==
    [][(kind = "lfu" /\ EvictingPut(op'))
         => LET live == DOMAIN lfu.cache
                tied == {k \in live : \A j \in live : lfu.cache[k][2] <= lfu.cache[j][2]}
                gone == live \ (DOMAIN lfu'.cache)
            IN /\ gone # {}
               /\ gone \subseteq tied
               /\ \A e \in gone : \A j \in tied \ {e} :
                     PosIn(recency, e) < PosIn(recency, j)]_vars

\* an LFU put evicted a key of frequency 1 while another key of frequency 1
\* stayed: the two were tied
C14_Witness ==
    /\ kind = "lfu" /\ EvictingPut(op) /\ lfu.capacity >= 2
    /\ \E j \in (DOMAIN lfu.cache) \ {op.key} : lfu.cache[j][2] = 1

\* the calls of remove(k) that find k
RemoveCases == {"remove_only", "remove_head", "remove_tail", "remove_middle"}

\* C13: LRU remove(k) of a live key returns the value last stored for k,
\* makes k absent, decreases len() by one and leaves the values and the
\* relative order of all other keys unchanged, wherever k sat in the list.
C13_LRURemovePresent ==
    [][(kind = "lru" /\ op'.name \in RemoveCases)
         => LET k == op'.key
            IN /\ k \in DOMAIN lru.map
               /\ ret' = Some(shadow[k])
               /\ k \notin DOMAIN lru'.map
               /\ LRU_len(lru') = LRU_len(lru) - 1
               /\ LRU_keys(lru').ret.val = Without(LRU_keys(lru).ret.val, k)
               /\ \A j \in (DOMAIN lru.map) \ {k} :
                     LRU_peek(lru', j).ret = LRU_peek(lru, j).ret
               /\ LRU_len(lru) = 1 => (lru'.head = Null /\ lru'.tail = Null)]_vars

\* remove took an entry out from between two others
C13_Witness ==
    /\ kind = "lru" /\ op.name = "remove_middle"
    /\ ret.tag = "Some" /\ LRU_len(lru) >= 2

\* C15: new(0) panics on either cache and yields no cache object; no cache
\* with capacity() = 0 is reachable; new(capacity) with capacity >= 1 yields
\* an empty cache of that capacity.
C15_ZeroCapacityPanics ==
    /\ kind = "panic" <=> (op.name = "new" /\ op.val = 0)
    /\ kind = "panic" => (lru = NoObject /\ lfu = NoObject)
    /\ kind = "lru" => (~IsPanic(lru) /\ lru.capacity >= 1)
    /\ kind = "lfu" => (~IsPanic(lfu) /\ lfu.capacity >= 1)
    /\ (kind = "lru" /\ op.name = "new")
          => (lru.capacity = op.val /\ LRU_len(lru) = 0 /\ LRU_keys(lru).ret.val = <<>>)
    /\ (kind = "lfu" /\ op.name = "new")
          => (lfu.capacity = op.val /\ LFU_len(lfu) = 0)

\* new(0) was called and panicked
C15_Witness ==
    kind = "panic" /\ op.name = "new" /\ op.val = 0

\* ======================================================================
\* SkipList (advanced/skip_list.rs)
\* ======================================================================
\* An index into the arena `nodes` is a position of the sequence, Null is
\* Option::None (in `update`: the head).  A forward vector is a function on
\* the levels 0..h.  rand_state is left out: random_level is any level.

\* highest level random_level returns in the model; the source's MAX_LEVEL
\* (16) bounds the towers in the same way
MaxLevel == 2
\* largest number of nodes the arena grows to
MaxNodes == 2

Levels == 0..MaxLevel

\* the values inserted: T is any Ord type, and three values give a least, a
\* middle and a greatest element
Elems == {1, 2, 3}

\* SkipList::new
SL_new ==
    [nodes |-> <<>>, head_forward |-> [i \in Levels |-> Null], level |-> 0]

\* SkipList::len
SL_len(s) == Len(s.nodes)

\* SkipList::is_empty
SL_is_empty(s) == Len(s.nodes) = 0

\* current_forward: the head's forward vector or a node's
Fwd(s, current) ==
    IF current = Null THEN s.head_forward ELSE s.nodes[current].forward

\* the inner loop at level i: walk while the next value is Less
RECURSIVE Advance(_, _, _, _)
Advance(s, value, i, current) ==
    LET next_idx == Fwd(s, current)[i]
    IN IF next_idx = Null THEN [current |-> current, found |-> Null]
       ELSE IF s.nodes[next_idx].value < value
            THEN Advance(s, value, i, next_idx)
       ELSE IF s.nodes[next_idx].value = value
            THEN [current |-> current, found |-> next_idx]
       ELSE [current |-> current, found |-> Null]

\* the outer loop from level i down to 0; insert and contains return at the
\* first Equal (stop), remove notes found_idx and goes on
RECURSIVE Descend(_, _, _, _, _, _, _)
Descend(s, value, i, current, update, found, stop) ==
    LET a == Advance(s, value, i, current)
        f == IF a.found # Null THEN a.found ELSE found
        u == [update EXCEPT ![i] = a.current]
    IN IF a.found # Null /\ stop THEN [update |-> update, found |-> a.found]
       ELSE IF i = 0 THEN [update |-> u, found |-> f]
       ELSE Descend(s, value, i - 1, a.current, u, f, stop)

\* vec![None; MAX_LEVEL + 1]
NoUpdate == [i \in Levels |-> Null]

\* SkipList::insert, with new_level the outcome of random_level
SL_insert(s, value, new_level) ==
    LET d == Descend(s, value, s.level, Null, NoUpdate, Null, TRUE)
    IN IF d.found # Null THEN [st |-> s, ret |-> Bool(FALSE)]
       ELSE
         LET update == [i \in Levels |->
                           IF new_level > s.level /\ i > s.level /\ i <= new_level
                           THEN Null ELSE d.update[i]]
             new_idx == Len(s.nodes) + 1
             new_forward ==
                 [i \in 0..new_level |->
                     IF update[i] # Null THEN s.nodes[update[i]].forward[i]
                     ELSE s.head_forward[i]]
             pushed == Append(s.nodes, [value |-> value, forward |-> new_forward])
         IN [st |-> [nodes |->
                        [n \in 1..Len(pushed) |->
                            LET f == pushed[n].forward
                            IN [pushed[n] EXCEPT !.forward =
                                  [i \in DOMAIN f |->
                                      IF i <= new_level /\ update[i] = n
                                      THEN new_idx ELSE f[i]]]],
                     head_forward |->
                        [i \in Levels |->
                            IF i <= new_level /\ update[i] = Null
                            THEN new_idx ELSE s.head_forward[i]],
                     level |-> IF new_level > s.level THEN new_level ELSE s.level],
             ret |-> Bool(TRUE)]

\* SkipList::contains
SL_contains(s, value) ==
    Descend(s, value, s.level, Null, NoUpdate, Null, TRUE).found # Null

\* the loop that lowers self.level after a removal
RECURSIVE LowerLevel(_, _)
LowerLevel(head_forward, level) ==
    IF level > 0 /\ head_forward[level] = Null
    THEN LowerLevel(head_forward, level - 1)
    ELSE level

\* the target's pointer at level i, None above its tower
TargetForward(s, target_idx, i) ==
    IF i \in DOMAIN s.nodes[target_idx].forward
    THEN s.nodes[target_idx].forward[i] ELSE Null

\* the pointer updates of remove for the levels 0..top
Splice(s, update, target_idx, top) ==
    LET head_forward ==
            [i \in Levels |->
                IF i <= top /\ update[i] = Null /\ s.head_forward[i] = target_idx
                THEN TargetForward(s, target_idx, i) ELSE s.head_forward[i]]
    IN [nodes |->
           [n \in 1..Len(s.nodes) |->
               LET f == s.nodes[n].forward
               IN [s.nodes[n] EXCEPT !.forward =
                     [i \in DOMAIN f |->
                         IF i <= top /\ update[i] = n /\ f[i] = target_idx
                         THEN TargetForward(s, target_idx, i) ELSE f[i]]]],
        head_forward |-> head_forward,
        level |-> LowerLevel(head_forward, s.level)]

\* mutant of SL_remove: only the bottom level is unlinked
SL_remove_bottom(s, value) ==
    LET d == Descend(s, value, s.level, Null, NoUpdate, Null, FALSE)
    IN IF d.found # Null
       THEN [st |-> Splice(s, d.update, d.found, 0), ret |-> Bool(TRUE)]
       ELSE [st |-> s, ret |-> Bool(FALSE)]

\* SkipList::remove; the node stays in the arena
SL_remove(s, value) ==
    LET d == Descend(s, value, s.level, Null, NoUpdate, Null, FALSE)
    IN IF d.found # Null
       THEN [st |-> Splice(s, d.update, d.found, s.level), ret |-> Bool(TRUE)]
       ELSE [st |-> s, ret |-> Bool(FALSE)]

\* SkipList::first
SL_first(s) ==
    IF s.head_forward[0] = Null THEN None ELSE Some(s.nodes[s.head_forward[0]].value)

\* SkipListIter::next, collected: follow forward[0]
RECURSIVE SL_walk(_, _)
SL_walk(s, current) ==
    IF current = Null THEN <<>>
    ELSE <<s.nodes[current].value>> \o SL_walk(s, s.nodes[current].forward[0])

\* SkipList::iter
SL_iter(s) == SL_walk(s, s.head_forward[0])

\* SkipList::clear
SL_clear(s) == SL_new

\* ------------------------------------------------------------------ calls
NoCaches ==
    /\ lru = NoObject
    /\ lfu = NoObject
    /\ shadow = EmptyMap
    /\ recency = <<>>
    /\ uses = EmptyMap

InitSL ==
    /\ kind = "skiplist"
    /\ sl = SL_new
    /\ members = {}
    /\ op = [name |-> "new", key |-> 0, val |-> 0, hit |-> FALSE, full |-> FALSE]
    /\ ret = Unit
    /\ NoCaches
    /\ uf = NoObject
    /\ classes = {}
    /\ NoTable
    /\ NoHeapNoQueue

\* one call on the skip list; hit: the value was inserted and not removed since
SLStep(name, hit, r) ==
    /\ kind = "skiplist"
    /\ sl' = r.st
    /\ ret' = r.ret
    /\ op' = [name |-> name, key |-> 0, val |-> 0, hit |-> hit, full |-> FALSE]
    /\ UNCHANGED <<kind, caches, shadow, uf, classes, ht, hashes, heap, bag, mq>>

SLInsert(v, new_level) ==
    LET r == SL_insert(sl, v, new_level)
    IN /\ Len(r.st.nodes) <= MaxNodes
       /\ SLStep("insert", v \in members, r)
       /\ members' = members \cup {v}

SLRemove(v) ==
    /\ SLStep("remove", v \in members, SL_remove(sl, v))
    /\ members' = members \ {v}

SLContains(v) ==
    /\ SLStep("contains", v \in members, [st |-> sl, ret |-> Bool(SL_contains(sl, v))])
    /\ UNCHANGED members

SLClear ==
    /\ SLStep("clear", FALSE, [st |-> SL_clear(sl), ret |-> Unit])
    /\ members' = {}

NextSL ==
    \/ \E v \in Elems, new_level \in Levels : SLInsert(v, new_level)
    \/ \E v \in Elems : SLRemove(v)
    \/ \E v \in Elems : SLContains(v)
    \/ SLClear

SpecSL == InitSL /\ [][NextSL]_vars

\* the values contains() reports
Contained(s) == {v \in Elems : SL_contains(s, v)}

\* C16: len() is the number of values contains() reports, and is_empty()
\* holds exactly when there is none.
C16_LenCountsContained ==
    kind = "skiplist"
      => /\ SL_len(sl) = Cardinality(Contained(sl))
         /\ SL_is_empty(sl) <=> Contained(sl) = {}

\* the increasing enumeration of a set of values
RECURSIVE Sorted(_)
Sorted(S) ==
    IF S = {} THEN <<>>
    ELSE LET m == CHOOSE x \in S : \A y \in S : x <= y
         IN <<m>> \o Sorted(S \ {m})

MaxElems == 4

\* the elements of a structure built with new(n) are 0..n-1
ElemsOf(u) == DOMAIN u.parent

\* UnionFind::new
UF_new(n) ==
    [parent |-> [x \in 0..(n - 1) |-> x], rank |-> [x \in 0..(n - 1) |-> 0],
     count |-> n]

\* UnionFind::len
UF_len(u) == Cardinality(DOMAIN u.parent)

\* UnionFind::count
UF_count(u) == u.count

\* UnionFind::find, with path compression
RECURSIVE UF_find(_, _)
UF_find(u, x) ==
    IF u.parent[x] # x
    THEN LET r == UF_find(u, u.parent[x])
         IN [st |-> [r.st EXCEPT !.parent[x] = r.ret], ret |-> r.ret]
    ELSE [st |-> u, ret |-> x]

\* UnionFind::find_immutable
RECURSIVE UF_find_immutable(_, _)
UF_find_immutable(u, x) ==
    IF u.parent[x] # x THEN UF_find_immutable(u, u.parent[x]) ELSE x

\* mutant of UF_union: count is decremented before the roots are compared
UF_union_counts_first(u, x, y) ==
    LET fx == UF_find(u, x)
        fy == UF_find(fx.st, y)
        c == [fy.st EXCEPT !.count = @ - 1]
        root_x == fx.ret
        root_y == fy.ret
    IN IF root_x = root_y THEN [st |-> c, ret |-> Bool(FALSE)]
       ELSE IF c.rank[root_x] < c.rank[root_y]
            THEN [st |-> [c EXCEPT !.parent[root_x] = root_y], ret |-> Bool(TRUE)]
       ELSE IF c.rank[root_x] > c.rank[root_y]
            THEN [st |-> [c EXCEPT !.parent[root_y] = root_x], ret |-> Bool(TRUE)]
       ELSE [st |-> [c EXCEPT !.parent[root_y] = root_x,
                              !.rank[root_x] = @ + 1],
             ret |-> Bool(TRUE)]

\* mutant of UF_union: y itself, not its root, is hung under the other tree
UF_union_links_element(u, x, y) ==
    LET fx == UF_find(u, x)
        fy == UF_find(fx.st, y)
        c == fy.st
        root_x == fx.ret
        root_y == fy.ret
    IN IF root_x = root_y THEN [st |-> c, ret |-> Bool(FALSE)]
       ELSE IF c.rank[root_x] < c.rank[root_y]
            THEN [st |-> [c EXCEPT !.parent[x] = root_y, !.count = @ - 1],
                  ret |-> Bool(TRUE)]
       ELSE IF c.rank[root_x] > c.rank[root_y]
            THEN [st |-> [c EXCEPT !.parent[y] = root_x, !.count = @ - 1],
                  ret |-> Bool(TRUE)]
       ELSE [st |-> [c EXCEPT !.parent[y] = root_x,
                              !.rank[root_x] = @ + 1, !.count = @ - 1],
             ret |-> Bool(TRUE)]

\* UnionFind::union, by rank
UF_union(u, x, y) ==
    LET fx == UF_find(u, x)
        fy == UF_find(fx.st, y)
        c == fy.st
        root_x == fx.ret
        root_y == fy.ret
    IN IF root_x = root_y THEN [st |-> c, ret |-> Bool(FALSE)]
       ELSE IF c.rank[root_x] < c.rank[root_y]
            THEN [st |-> [c EXCEPT !.parent[root_x] = root_y, !.count = @ - 1],
                  ret |-> Bool(TRUE)]
       ELSE IF c.rank[root_x] > c.rank[root_y]
            THEN [st |-> [c EXCEPT !.parent[root_y] = root_x, !.count = @ - 1],
                  ret |-> Bool(TRUE)]
       ELSE [st |-> [c EXCEPT !.parent[root_y] = root_x,
                              !.rank[root_x] = @ + 1, !.count = @ - 1],
             ret |-> Bool(TRUE)]

\* UnionFind::connected
UF_connected(u, x, y) ==
    LET fx == UF_find(u, x)
        fy == UF_find(fx.st, y)
    IN [st |-> fy.st, ret |-> Bool(fx.ret = fy.ret)]

\* UnionFind::connected_immutable
UF_connected_immutable(u, x, y) ==
    UF_find_immutable(u, x) = UF_find_immutable(u, y)

\* UnionFind::reset
UF_reset(u) ==
    [parent |-> [x \in DOMAIN u.parent |-> x], rank |-> [x \in DOMAIN u.parent |-> 0],
     count |-> Cardinality(DOMAIN u.parent)]

\* ------------------------------------------------------------------ calls
\* `classes` is the partition generated by the pairs passed to union: the
\* classes of the reflexive-symmetric-transitive closure
ClassOf(x) == CHOOSE c \in classes : x \in c

Merge(x, y) ==
    classes' = (classes \ {ClassOf(x), ClassOf(y)}) \cup {ClassOf(x) \cup ClassOf(y)}

InitUF ==
    /\ kind = "unionfind"
    /\ \E n \in 1..MaxElems :
          /\ uf = UF_new(n)
          /\ classes = {{x} : x \in 0..(n - 1)}
    /\ op = [name |-> "new", key |-> 0, val |-> 0, hit |-> FALSE, full |-> FALSE]
    /\ ret = Unit
    /\ NoCaches
    /\ sl = NoObject
    /\ members = {}
    /\ NoTable
    /\ NoHeapNoQueue

\* one call on the union-find; hit: x and y were related before the call
UFStep(name, x, y, r) ==
    /\ kind = "unionfind"
    /\ uf' = r.st
    /\ ret' = r.ret
    /\ op' = [name |-> name, key |-> x, val |-> y, hit |-> ClassOf(x) = ClassOf(y),
              full |-> FALSE]
    /\ UNCHANGED <<kind, caches, shadow, sl, members, ht, hashes, heap, bag, mq>>

UFUnion(x, y) == UFStep("union", x, y, UF_union(uf, x, y)) /\ Merge(x, y)

UFFind(x) ==
    /\ UFStep("find", x, x, [st |-> UF_find(uf, x).st, ret |-> Usize(UF_find(uf, x).ret)])
    /\ UNCHANGED classes

UFConnected(x, y) ==
    UFStep("connected", x, y, UF_connected(uf, x, y)) /\ UNCHANGED classes

UFReset ==
    /\ kind = "unionfind"
    /\ uf' = UF_reset(uf)
    /\ ret' = Unit
    /\ op' = [name |-> "reset", key |-> 0, val |-> 0, hit |-> FALSE, full |-> FALSE]
    /\ classes' = {{x} : x \in ElemsOf(uf)}
    /\ UNCHANGED <<kind, caches, shadow, sl, members, ht, hashes, heap, bag, mq>>

NextUF ==
    \/ \E x \in ElemsOf(uf), y \in ElemsOf(uf) : UFUnion(x, y)
    \/ \E x \in ElemsOf(uf) : UFFind(x)
    \/ \E x \in ElemsOf(uf), y \in ElemsOf(uf) : UFConnected(x, y)
    \/ UFReset

SpecUF == InitUF /\ [][NextUF]_vars

\* the elements x with parent[x] == x
Roots(u) == {x \in ElemsOf(u) : u.parent[x] = x}

\* C18: count() is the number of disjoint sets, which is the number of
\* roots; union returns true exactly when x and y were in different sets,
\* and then the number of sets, and count with it, drops by one; find and
\* connected leave the sets and count as they are.
C18_CountIsNumberOfSets ==
    kind = "unionfind"
      => /\ UF_count(uf) = Cardinality(classes)
         /\ UF_count(uf) = Cardinality(Roots(uf))
         /\ op.name = "union" => ret = Bool(~op.hit)

\* union of two different elements that were already in one set
C18_Witness ==
    /\ kind = "unionfind" /\ op.name = "union" /\ op.hit /\ op.key # op.val
    /\ ret = Bool(FALSE)
    /\ UF_count(uf) < UF_len(uf)

\* the k-th ancestor of x
RECURSIVE Ancestor(_, _, _)
Ancestor(u, x, k) == IF k = 0 THEN x ELSE Ancestor(u, u.parent[x], k - 1)

\* every element reaches a root: the parent pointers form a forest
Acyclic(u) ==
    \A x \in ElemsOf(u) : \E k \in 0..UF_len(u) : Ancestor(u, x, k) \in Roots(u)

\* the partition a structure represents
PartitionOf(u) ==
    {{y \in ElemsOf(u) : UF_find_immutable(u, y) = UF_find_immutable(u, x)} :
        x \in ElemsOf(u)}

\* C19: the forest is acyclic; connected(x, y) holds iff x and y are related
\* by the closure of the pairs passed to union; find never changes the
\* partition; find_immutable and connected_immutable answer as find and
\* connected do.
C19_Connectivity ==
    kind = "unionfind"
      => /\ Acyclic(uf)
         /\ PartitionOf(uf) = classes
         /\ \A x \in ElemsOf(uf) :
               /\ UF_find(uf, x).ret = UF_find_immutable(uf, x)
               /\ Acyclic(UF_find(uf, x).st)
               /\ PartitionOf(UF_find(uf, x).st) = classes
         /\ \A x \in ElemsOf(uf), y \in ElemsOf(uf) :
               /\ UF_connected(uf, x, y).ret = Bool(ClassOf(x) = ClassOf(y))
               /\ UF_connected_immutable(uf, x, y) = (ClassOf(x) = ClassOf(y))
         /\ op.name = "connected" => ret = Bool(op.hit)

\* find has compressed a path: a root of rank 2 with every element of its
\* set directly below it
C19_Witness ==
    /\ kind = "unionfind" /\ op.name = "find"
    /\ \E r \in Roots(uf) :
          /\ ret = Usize(r)
          /\ uf.rank[r] = 2
          /\ uf.parent[op.key] = r /\ op.key # r
          /\ \A x \in ClassOf(r) : uf.parent[x] = r

\* ======================================================================
\* HashTable (hashing/hash_table.rs)
\* ======================================================================
\* `hashes` gives hasher.finish() for every key: FNV-1a is a fixed function
\* of the key's bytes, K is any Hash type, so the model takes any function.
\* Slots are numbered from 0 as in the source.

\* largest capacity passed to with_capacity
MaxSlots == 3
\* largest value of hasher.finish()
MaxHash == 1

\* the keys inserted: K is any Hash + Eq type, and three keys fill a probe
\* chain with a first, a middle and a last entry
HKeys == {1, 2, 3}

INITIAL_CAPACITY == 16

Empty == [tag |-> "Empty", key |-> 0, value |-> 0]
Deleted == [tag |-> "Deleted", key |-> 0, value |-> 0]
Occupied(k, v) == [tag |-> "Occupied", key |-> k, value |-> v]

\* Option<usize>::None for a slot index
NoIndex == -1

\* usize::max
Max(a, b) == IF a >= b THEN a ELSE b

\* HashTable::with_capacity
HT_with_capacity(capacity) ==
    [entries |-> [i \in 0..(Max(capacity, 1) - 1) |-> Empty], len |-> 0,
     capacity |-> Max(capacity, 1)]

\* HashTable::new
HT_new == HT_with_capacity(INITIAL_CAPACITY)

\* HashTable::len
HT_len(t) == t.len

\* HashTable::hash
HT_hash(t, key) == hashes[key] % t.capacity

\* the loop of find_index from slot idx
RECURSIVE FindFrom(_, _, _, _)
FindFrom(t, key, idx, start) ==
    LET e == t.entries[idx]
        next == (idx + 1) % t.capacity
    IN IF e.tag = "Occupied" /\ e.key = key THEN idx
       ELSE IF e.tag = "Empty" THEN NoIndex
       ELSE IF next = start THEN NoIndex
       ELSE FindFrom(t, key, next, start)

\* HashTable::find_index
find_index(t, key) == FindFrom(t, key, HT_hash(t, key), HT_hash(t, key))

\* first_deleted.unwrap_or(idx)
UnwrapOr(first_deleted, idx) == IF first_deleted = NoIndex THEN idx ELSE first_deleted

\* the loop of find_insert_index from slot idx
RECURSIVE InsertFrom(_, _, _, _, _)
InsertFrom(t, key, idx, start, first_deleted) ==
    LET e == t.entries[idx]
        next == (idx + 1) % t.capacity
        fd == IF e.tag = "Deleted" /\ first_deleted = NoIndex THEN idx
              ELSE first_deleted
    IN IF e.tag = "Occupied" /\ e.key = key THEN idx
       ELSE IF e.tag = "Empty" THEN UnwrapOr(first_deleted, idx)
       ELSE IF next = start THEN UnwrapOr(fd, next)
       ELSE InsertFrom(t, key, next, start, fd)

\* mutant of find_insert_index: the first tombstone ends the search
find_insert_index_eager(t, key) ==
    LET RECURSIVE Eager(_, _)
        Eager(idx, start) ==
            LET e == t.entries[idx]
                next == (idx + 1) % t.capacity
            IN IF e.tag = "Occupied" /\ e.key = key THEN idx
               ELSE IF e.tag \in {"Empty", "Deleted"} THEN idx
               ELSE IF next = start THEN next
               ELSE Eager(next, start)
    IN Eager(HT_hash(t, key), HT_hash(t, key))

\* HashTable::find_insert_index
find_insert_index(t, key) ==
    InsertFrom(t, key, HT_hash(t, key), HT_hash(t, key), NoIndex)

\* the while loop of resize: the first slot from idx that is not occupied
RECURSIVE FreeFrom(_, _, _)
FreeFrom(new_entries, idx, new_capacity) ==
    IF new_entries[idx].tag = "Occupied"
    THEN FreeFrom(new_entries, (idx + 1) % new_capacity, new_capacity)
    ELSE idx

\* the for loop of resize over the old slots i, i+1, ...
RECURSIVE Rehash(_, _, _, _)
Rehash(t, i, new_entries, new_capacity) ==
    IF i = t.capacity THEN new_entries
    ELSE LET e == t.entries[i]
         IN IF e.tag = "Occupied"
            THEN Rehash(t, i + 1,
                        [new_entries EXCEPT
                           ![FreeFrom(new_entries, hashes[e.key] % new_capacity,
                                      new_capacity)] = e],
                        new_capacity)
            ELSE Rehash(t, i + 1, new_entries, new_capacity)

\* HashTable::resize
resize(t) ==
    LET new_capacity == t.capacity * 2
    IN [entries |-> Rehash(t, 0, [i \in 0..(new_capacity - 1) |-> Empty], new_capacity),
        len |-> t.len, capacity |-> new_capacity]

\* (len + 1) as f64 / capacity as f64 > 0.75, exact for these magnitudes
OverLoad(t) == 4 * (t.len + 1) > 3 * t.capacity

\* HashTable::insert
HT_insert(t, key, value) ==
    LET r == IF OverLoad(t) THEN resize(t) ELSE t
        idx == find_insert_index(r, key)
        e == r.entries[idx]
    IN IF e.tag = "Occupied" /\ e.key = key
       THEN [st |-> [r EXCEPT !.entries[idx] = Occupied(key, value)],
             ret |-> Some(e.value)]
       ELSE [st |-> [r EXCEPT !.entries[idx] = Occupied(key, value), !.len = @ + 1],
             ret |-> None]

\* HashTable::get
HT_get(t, key) ==
    LET idx == find_index(t, key)
    IN IF idx # NoIndex /\ t.entries[idx].tag = "Occupied"
       THEN Some(t.entries[idx].value) ELSE None

\* HashTable::contains
HT_contains(t, key) == find_index(t, key) # NoIndex

\* HashTable::remove
HT_remove(t, key) ==
    LET idx == find_index(t, key)
    IN IF idx # NoIndex /\ t.entries[idx].tag = "Occupied"
       THEN [st |-> [t EXCEPT !.entries[idx] = Deleted, !.len = @ - 1],
             ret |-> Some(t.entries[idx].value)]
       ELSE IF idx # NoIndex
            THEN [st |-> [t EXCEPT !.entries[idx] = Deleted], ret |-> None]
       ELSE [st |-> t, ret |-> None]

\* HashTable::clear
HT_clear(t) ==
    [entries |-> [i \in 0..(INITIAL_CAPACITY - 1) |-> Empty], len |-> 0,
     capacity |-> INITIAL_CAPACITY]

\* HashTable::keys, as a set of slots
OccupiedSlots(t) == {i \in DOMAIN t.entries : t.entries[i].tag = "Occupied"}

\* ------------------------------------------------------------------ calls
InitHT ==
    /\ kind = "hashtable"
    /\ \E capacity \in 0..MaxSlots : ht = HT_with_capacity(capacity)
    /\ hashes \in [HKeys -> 0..MaxHash]
    /\ op = [name |-> "new", key |-> 0, val |-> 0, hit |-> FALSE, full |-> FALSE]
    /\ ret = Unit
    /\ lru = NoObject
    /\ lfu = NoObject
    /\ shadow = EmptyMap
    /\ recency = <<>>
    /\ uses = EmptyMap
    /\ sl = NoObject
    /\ members = {}
    /\ uf = NoObject
    /\ classes = {}
    /\ NoHeapNoQueue

\* one call on the table; hit: the key was present, full: the call resized
HTStep(name, k, v, resized, r) ==
    /\ kind = "hashtable"
    /\ ht' = r.st
    /\ ret' = r.ret
    /\ op' = [name |-> name, key |-> k, val |-> v, hit |-> k \in DOMAIN shadow,
              full |-> resized]
    /\ UNCHANGED <<kind, caches, sl, members, uf, classes, hashes, heap, bag, mq>>

HTInsert(k, v) ==
    /\ HTStep("insert", k, v, OverLoad(ht), HT_insert(ht, k, v))
    /\ shadow' = MapInsert(shadow, k, v)

HTRemove(k) ==
    /\ HTStep("remove", k, 0, FALSE, HT_remove(ht, k))
    /\ shadow' = MapRemove(shadow, k)

HTGet(k) ==
    /\ HTStep("get", k, 0, FALSE, [st |-> ht, ret |-> HT_get(ht, k)])
    /\ UNCHANGED shadow

HTClear ==
    /\ HTStep("clear", 0, 0, FALSE, [st |-> HT_clear(ht), ret |-> Unit])
    /\ shadow' = EmptyMap

NextHT ==
    \/ \E k \in HKeys, v \in Vals : HTInsert(k, v)
    \/ \E k \in HKeys : HTRemove(k)
    \/ \E k \in HKeys : HTGet(k)
    \/ HTClear

SpecHT == InitHT /\ [][NextHT]_vars

\* what a map holding m answers for k
Lookup(m, k) == IF k \in DOMAIN m THEN Some(m[k]) ELSE None

\* C20: the table is a map.  After every call get(k) is the value of the
\* latest insert(k, _) not followed by remove(k), None otherwise; insert
\* and remove return the previous value iff the key was present; no key
\* sits in two slots; len() is the number of present keys.
C20_HashTableIsMap ==
    [][kind = "hashtable"
         => /\ \A k \in HKeys :
                 /\ HT_get(ht', k) = Lookup(shadow', k)
                 /\ HT_contains(ht', k) <=> k \in DOMAIN shadow'
            /\ \A i \in OccupiedSlots(ht'), j \in OccupiedSlots(ht') :
                 ht'.entries[i].key = ht'.entries[j].key => i = j
            /\ HT_len(ht') = Cardinality(DOMAIN shadow')
            /\ HT_len(ht') = Cardinality(OccupiedSlots(ht'))
            /\ op'.name \in {"insert", "remove", "get"}
                 => ret' = Lookup(shadow, op'.key)]_vars

\* insert replaced the value of a key stored behind a tombstone of its chain
C20_Witness ==
    /\ kind = "hashtable" /\ op.name = "insert" /\ op.hit /\ ret.tag = "Some"
    /\ ht.entries[HT_hash(ht, op.key)].tag = "Deleted"
    /\ HT_get(ht, op.key) = Some(op.val)

\* ======================================================================
\* BinaryHeap (heaps/binary_heap.rs)
\* ======================================================================
\* data is a sequence; the source's index i is position i + 1.

\* largest number of elements the heap holds
MaxHeap == 4

\* the elements: T is any Ord type; three values give duplicates in a heap
\* of four
HVals == {1, 2, 3}

HeapTypes == {"Max", "Min"}

\* a returned T
Value(v) == [tag |-> "Value", val |-> <<v>>]

\* Ord::cmp
Cmp(a, b) == IF a < b THEN "Less" ELSE IF a = b THEN "Equal" ELSE "Greater"

\* BinaryHeap::compare
compare(h, a, b) == IF h.heap_type = "Max" THEN Cmp(a, b) ELSE Cmp(b, a)

\* BinaryHeap::parent
parent(i) == (i - 1) \div 2

\* BinaryHeap::left_child
left_child(i) == 2 * i + 1

\* BinaryHeap::right_child
right_child(i) == 2 * i + 2

\* self.data[i]
At(h, i) == h.data[i + 1]

\* Vec::swap
Swap(h, i, j) ==
    [h EXCEPT !.data = [@ EXCEPT ![i + 1] = h.data[j + 1], ![j + 1] = h.data[i + 1]]]

\* BinaryHeap::len
HP_len(h) == Len(h.data)

\* BinaryHeap::is_empty
HP_is_empty(h) == Len(h.data) = 0

\* BinaryHeap::sift_up
RECURSIVE sift_up(_, _)
sift_up(h, i) ==
    IF i > 0 /\ compare(h, At(h, i), At(h, parent(i))) = "Greater"
    THEN sift_up(Swap(h, i, parent(i)), parent(i))
    ELSE h

\* mutant of sift_down: the right child is never looked at
RECURSIVE sift_down_left_only(_, _)
sift_down_left_only(h, i) ==
    LET len == Len(h.data)
        left == left_child(i)
        largest == IF left < len /\ compare(h, At(h, left), At(h, i)) = "Greater"
                   THEN left ELSE i
    IN IF largest # i THEN sift_down_left_only(Swap(h, i, largest), largest) ELSE h

\* BinaryHeap::sift_down
RECURSIVE sift_down(_, _)
sift_down(h, i) ==
    LET len == Len(h.data)
        left == left_child(i)
        right == right_child(i)
        l1 == IF left < len /\ compare(h, At(h, left), At(h, i)) = "Greater"
              THEN left ELSE i
        largest == IF right < len /\ compare(h, At(h, right), At(h, l1)) = "Greater"
                   THEN right ELSE l1
    IN IF largest # i THEN sift_down(Swap(h, i, largest), largest) ELSE h

\* the loop of heapify for i, i - 1, ..., 0
RECURSIVE HeapifyFrom(_, _)
HeapifyFrom(h, i) == IF i < 0 THEN h ELSE HeapifyFrom(sift_down(h, i), i - 1)

\* BinaryHeap::heapify
heapify(h) == HeapifyFrom(h, (Len(h.data) \div 2) - 1)

\* BinaryHeap::from_vec; new_max and new_min are from_vec of the empty vector
HP_from_vec(vec, heap_type) == heapify([data |-> vec, heap_type |-> heap_type])

\* BinaryHeap::push
HP_push(h, value) ==
    LET pushed == [h EXCEPT !.data = Append(@, value)]
    IN [st |-> sift_up(pushed, Len(pushed.data) - 1), ret |-> Unit]

\* BinaryHeap::pop
HP_pop(h) ==
    IF HP_is_empty(h) THEN [st |-> h, ret |-> None]
    ELSE LET len == Len(h.data)
             swapped == Swap(h, 0, len - 1)
             popped == [swapped EXCEPT !.data = SubSeq(@, 1, len - 1)]
         IN [st |-> IF ~HP_is_empty(popped) THEN sift_down(popped, 0) ELSE popped,
             ret |-> Some(swapped.data[len])]

\* BinaryHeap::peek
HP_peek(h) == IF Len(h.data) = 0 THEN None ELSE Some(h.data[1])

\* BinaryHeap::push_pop
HP_push_pop(h, value) ==
    IF HP_is_empty(h) \/ compare(h, value, At(h, 0)) # "Less"
    THEN [st |-> h, ret |-> Value(value)]
    ELSE [st |-> sift_down([h EXCEPT !.data[1] = value], 0), ret |-> Value(At(h, 0))]

\* BinaryHeap::clear
HP_clear(h) == [h EXCEPT !.data = <<>>]

\* BinaryHeap::is_valid
HP_is_valid(h) ==
    \A i \in 1..(Len(h.data) - 1) :
        compare(h, At(h, i), At(h, parent(i))) # "Greater"

\* ------------------------------------------------------------------ calls
\* `bag` is the multiset of the stored elements as an increasing sequence,
\* kept from the calls alone: a priority queue without a heap

\* all sequences over S of length up to n
SeqsUpTo(S, n) == UNION {[1..m -> S] : m \in 0..n}

\* add v to an increasing sequence
RECURSIVE BagAdd(_, _)
BagAdd(b, v) ==
    IF b = <<>> THEN <<v>>
    ELSE IF v <= Head(b) THEN <<v>> \o b
    ELSE <<Head(b)>> \o BagAdd(Tail(b), v)

\* the multiset of a vector
RECURSIVE BagOf(_)
BagOf(vec) == IF vec = <<>> THEN <<>> ELSE BagAdd(BagOf(Tail(vec)), Head(vec))

\* the element a heap of this type has to hand out first
Extreme(heap_type, b) == IF heap_type = "Max" THEN b[Len(b)] ELSE b[1]

\* the multiset without that element
BagPop(heap_type, b) ==
    IF b = <<>> THEN <<>>
    ELSE IF heap_type = "Max" THEN SubSeq(b, 1, Len(b) - 1) ELSE Tail(b)

InitHeap ==
    /\ kind = "heap"
    /\ heap = NoObject
    /\ bag = <<>>
    /\ mq = NoObject
    /\ op = [name |-> "none", key |-> 0, val |-> 0, hit |-> FALSE, full |-> FALSE]
    /\ ret = Unit
    /\ NoCaches
    /\ sl = NoObject
    /\ members = {}
    /\ uf = NoObject
    /\ classes = {}
    /\ NoTable

\* one call on the heap, or its construction
HeapStep(name, v, r) ==
    /\ kind = "heap"
    /\ heap' = r.st
    /\ ret' = r.ret
    /\ op' = [name |-> name, key |-> v, val |-> 0, hit |-> FALSE, full |-> FALSE]
    /\ UNCHANGED <<kind, caches, shadow, sl, members, uf, classes, ht, hashes, mq>>

HeapFromVec(vec, heap_type) ==
    /\ heap = NoObject
    /\ HeapStep("from_vec", 0, [st |-> HP_from_vec(vec, heap_type), ret |-> Unit])
    /\ bag' = BagOf(vec)

HeapPush(v) ==
    /\ heap # NoObject
    /\ HP_len(heap) < MaxHeap
    /\ HeapStep("push", v, HP_push(heap, v))
    /\ bag' = BagAdd(bag, v)

HeapPop ==
    /\ heap # NoObject
    /\ HeapStep("pop", 0, HP_pop(heap))
    /\ bag' = BagPop(heap.heap_type, bag)

HeapPushPop(v) ==
    /\ heap # NoObject
    /\ HeapStep("push_pop", v, HP_push_pop(heap, v))
    /\ bag' = BagPop(heap.heap_type, BagAdd(bag, v))

HeapClear ==
    /\ heap # NoObject
    /\ HeapStep("clear", 0, [st |-> HP_clear(heap), ret |-> Unit])
    /\ bag' = <<>>

NextHeap ==
    \/ \E vec \in SeqsUpTo(HVals, MaxHeap), heap_type \in HeapTypes :
          HeapFromVec(vec, heap_type)
    \/ \E v \in HVals : HeapPush(v)
    \/ HeapPop
    \/ \E v \in HVals : HeapPushPop(v)
    \/ HeapClear

SpecHeap == InitHeap /\ [][NextHeap]_vars

\* C21: after from_vec and after every push, pop and push_pop is_valid()
\* holds and the heap stores the multiset a priority queue would; pop and
\* peek hand out the maximum (Max) or minimum (Min) of the stored elements;
\* push_pop(v) returns what push(v) followed by pop() returns and leaves
\* the same multiset.
C21_HeapProperty ==
    [][kind = "heap"
         => /\ HP_is_valid(heap')
            /\ BagOf(heap'.data) = bag'
            /\ HP_peek(heap') = (IF bag' = <<>> THEN None
                                 ELSE Some(Extreme(heap'.heap_type, bag')))
            /\ op'.name = "pop"
                 => ret' = (IF bag = <<>> THEN None
                            ELSE Some(Extreme(heap.heap_type, bag)))
            /\ op'.name = "push_pop"
                 => LET two == HP_pop(HP_push(heap, op'.key).st)
                    IN /\ ret' = Value(two.ret.val[1])
                       /\ BagOf(heap'.data) = BagOf(two.st.data)]_vars

\* push_pop put its argument at the root and sifted it down two levels
C21_Witness ==
    /\ kind = "heap" /\ op.name = "push_pop" /\ ret # Value(op.key)
    /\ Len(heap.data) = 4 /\ heap.data[4] = op.key
    /\ \A j \in 1..3 : heap.data[j] # op.key

\* ======================================================================
\* MonotonicQueue and the sliding window (linear/monotonic_queue.rs)
\* ======================================================================
\* A queue is [data, order]; data holds the pairs <<value, index>>, front
\* first.  `mq` is the frame of one call of sliding_window_extremes: its
\* arguments, its locals queue, result and i, and where it stands.

\* longest array passed to sliding_window_maximum / sliding_window_minimum
MaxLen == 4

\* the array elements: three values give duplicates in an array of four
WVals == {1, 2, 3}

Orders == {"Decreasing", "Increasing"}

\* MonotonicQueue::new
MQ_new(order) == [data |-> <<>>, order |-> order]

\* the while loops of push: drop from the back what the new value covers
RECURSIVE DropBack(_, _, _)
DropBack(data, order, value) ==
    IF data = <<>> THEN data
    ELSE LET back_val == data[Len(data)][1]
         IN IF (order = "Decreasing" /\ back_val <= value)
               \/ (order = "Increasing" /\ back_val >= value)
            THEN DropBack(SubSeq(data, 1, Len(data) - 1), order, value)
            ELSE data

\* MonotonicQueue::push
MQ_push(q, value, index) ==
    [q EXCEPT !.data = Append(DropBack(q.data, q.order, value), <<value, index>>)]

\* mutant of MQ_pop_front_if_before: the entry at min_index goes as well
RECURSIVE MQ_pop_front_through(_, _)
MQ_pop_front_through(q, min_index) ==
    IF q.data # <<>> /\ q.data[1][2] <= min_index
    THEN MQ_pop_front_through([q EXCEPT !.data = Tail(@)], min_index)
    ELSE q

\* MonotonicQueue::pop_front_if_before
RECURSIVE MQ_pop_front_if_before(_, _)
MQ_pop_front_if_before(q, min_index) ==
    IF q.data # <<>> /\ q.data[1][2] < min_index
    THEN MQ_pop_front_if_before([q EXCEPT !.data = Tail(@)], min_index)
    ELSE q

\* MonotonicQueue::front
MQ_front(q) == IF q.data = <<>> THEN None ELSE Some(q.data[1][1])

\* MonotonicQueue::len
MQ_len(q) == Len(q.data)

\* sliding_window_extremes up to the loop: the early return or the locals
WindowEnter(order, arr, k) ==
    IF Len(arr) = 0 \/ k = 0 \/ k > Len(arr)
    THEN [arr |-> arr, k |-> k, queue |-> MQ_new(order), result |-> <<>>,
          i |-> 0, pc |-> "done"]
    ELSE [arr |-> arr, k |-> k, queue |-> MQ_new(order), result |-> <<>>,
          i |-> 0, pc |-> "loop"]

\* one turn of the for loop of sliding_window_extremes, for arr[i]
WindowTurn(f) ==
    LET i == f.i
        pushed == MQ_push(f.queue, f.arr[i + 1], i)
        queue == IF i >= f.k THEN MQ_pop_front_if_before(pushed, i - f.k + 1)
                 ELSE pushed
        result == IF i >= f.k - 1 /\ MQ_front(queue) # None
                  THEN Append(f.result, MQ_front(queue).val[1])
                  ELSE f.result
    IN [f EXCEPT !.queue = queue, !.result = result, !.i = i + 1,
                 !.pc = IF i + 1 = Len(f.arr) THEN "done" ELSE "loop"]

\* ------------------------------------------------------------------ calls
InitWindow ==
    /\ kind = "window"
    /\ mq = NoObject
    /\ heap = NoObject
    /\ bag = <<>>
    /\ op = [name |-> "none", key |-> 0, val |-> 0, hit |-> FALSE, full |-> FALSE]
    /\ ret = Unit
    /\ NoCaches
    /\ sl = NoObject
    /\ members = {}
    /\ uf = NoObject
    /\ classes = {}
    /\ NoTable

WindowStep(name, f) ==
    /\ kind = "window"
    /\ mq' = f
    /\ op' = [name |-> name, key |-> 0, val |-> 0, hit |-> FALSE, full |-> FALSE]
    /\ ret' = IF f.pc = "done" THEN Items(f.result) ELSE Unit
    /\ UNCHANGED <<kind, caches, shadow, sl, members, uf, classes, ht, hashes,
                   heap, bag>>

\* sliding_window_maximum(arr, k)
WindowMaximum(arr, k) ==
    mq = NoObject /\ WindowStep("sliding_window_maximum", WindowEnter("Decreasing", arr, k))

\* sliding_window_minimum(arr, k)
WindowMinimum(arr, k) ==
    mq = NoObject /\ WindowStep("sliding_window_minimum", WindowEnter("Increasing", arr, k))

\* the loop takes its next element
WindowLoop ==
    /\ mq # NoObject
    /\ mq.pc = "loop"
    /\ WindowStep(op.name, WindowTurn(mq))

NextWindow ==
    \/ \E arr \in SeqsUpTo(WVals, MaxLen), k \in 0..(MaxLen + 1) : WindowMaximum(arr, k)
    \/ \E arr \in SeqsUpTo(WVals, MaxLen), k \in 0..(MaxLen + 1) : WindowMinimum(arr, k)
    \/ WindowLoop

SpecWindow == InitWindow /\ [][NextWindow]_vars

\* the greatest (Decreasing) or least (Increasing) of arr[from .. from + k - 1],
\* positions counted from 1
WindowExtreme(order, arr, from, k) ==
    CHOOSE x \in {arr[j] : j \in from..(from + k - 1)} :
        \A j \in from..(from + k - 1) :
            IF order = "Decreasing" THEN arr[j] <= x ELSE arr[j] >= x

\* the values of a queue run strictly down (Decreasing) or up (Increasing)
StrictlyMonotonic(q) ==
    \A j \in 1..(Len(q.data) - 1) :
        IF q.order = "Decreasing" THEN q.data[j][1] > q.data[j + 1][1]
        ELSE q.data[j][1] < q.data[j + 1][1]

\* C22: for 1 <= k <= len(arr) the result has len(arr) - k + 1 elements and
\* its i-th is the maximum (minimum) of arr[i..i+k]; for k = 0, k > len(arr)
\* or an empty array it is empty; all through the loop the queue's values
\* are strictly decreasing (max) or increasing (min) from front to back.
C22_SlidingWindow ==
    (kind = "window" /\ mq # NoObject)
      => /\ StrictlyMonotonic(mq.queue)
         /\ \A j \in 1..Len(mq.result) :
               mq.result[j] = WindowExtreme(mq.queue.order, mq.arr, j, mq.k)
         /\ mq.pc = "loop" =>
               Len(mq.result) = (IF mq.i >= mq.k THEN mq.i - mq.k + 1 ELSE 0)
         /\ mq.pc = "done" =>
               /\ ret = Items(mq.result)
               /\ Len(mq.result) =
                    (IF Len(mq.arr) = 0 \/ mq.k = 0 \/ mq.k > Len(mq.arr) THEN 0
                     ELSE Len(mq.arr) - mq.k + 1)

\* a maximum over an array with duplicates whose greatest element is the
\* first one and leaves the window
C22_Witness ==
    /\ kind = "window" /\ mq # NoObject /\ mq.pc = "done"
    /\ op.name = "sliding_window_maximum"
    /\ Len(mq.arr) = 4 /\ mq.k = 2 /\ Len(mq.result) = 3
    /\ \A j \in 2..4 : mq.arr[j] < mq.arr[1]
    /\ mq.arr[2] = mq.arr[3]

\* ======================================================================
\* The representation invariants of the caches
\* ======================================================================
\* the nodes met when following next from head
Listed(c) == Walk(c.nodes, c.head, Cardinality(DOMAIN c.nodes) + 1)

\* a finite doubly-linked list from head to tail
WellLinked(c) ==
    LET w == Listed(c)
    IN /\ (c.head = Null) = (c.tail = Null)
       /\ (c.head = Null) = LRU_is_empty(c)
       /\ Len(w) = LRU_len(c)
       /\ \A i \in 1..Len(w) : w[i] \in DOMAIN c.nodes
       /\ c.head # Null =>
             /\ c.nodes[c.head].prev = Null
             /\ c.nodes[c.tail].next = Null
             /\ w[Len(w)] = c.tail
       /\ \A a, b \in DOMAIN c.nodes :
             (c.nodes[a].next = b) = (c.nodes[b].prev = a)
       /\ WalkBack(c.nodes, c.tail, Cardinality(DOMAIN c.nodes) + 1) = Reverse(w)

\* the index map and the list hold the same keys, one node each
Indexed(c) ==
    LET w == Listed(c)
    IN /\ DOMAIN c.map = {c.nodes[w[i]].key : i \in 1..Len(w)}
       /\ \A k \in DOMAIN c.map :
             /\ c.map[k] \in DOMAIN c.nodes
             /\ c.nodes[c.map[k]].key = k
       /\ \A a, b \in DOMAIN c.nodes :
             c.nodes[a].key = c.nodes[b].key => a = b
       /\ DOMAIN c.nodes = {w[i] : i \in 1..Len(w)}

\* C23: after every operation the index map's keys are the keys of the
\* nodes reachable from head, each map entry points at the node with that
\* key, no two nodes share a key, and the list is a well-formed finite
\* doubly-linked list: head.prev and tail.next are None, a.next == b iff
\* b.prev == a, the walk from head ends at tail after len() nodes, and head
\* and tail are None iff the cache is empty.
C23_LRUIndexAndList ==
    kind = "lru" => WellLinked(lru) /\ Indexed(lru)

\* an entry of a list of three has been moved to the front, or the middle
\* one of three has been removed
C23_Witness ==
    /\ kind = "lru"
    /\ \/ op.name = "get" /\ op.hit /\ LRU_len(lru) = 3
          /\ lru.nodes[lru.head].key = op.key
          /\ lru.nodes[lru.head].next # lru.tail
       \/ op.name = "remove_middle" /\ LRU_len(lru) = 2

\* the live keys
Live(c) == DOMAIN c.cache

\* the (frequency, position) pairs of the buckets at which key k is stored
Places(c, k) ==
    {fp \in UNION {{<<f, i>> : i \in 1..Len(c.freq_to_keys[f])} : f \in DOMAIN c.freq_to_keys} :
        c.freq_to_keys[fp[1]][fp[2]] = k}

\* the number of keys held by the buckets
RECURSIVE BucketSize(_, _)
BucketSize(c, fs) ==
    IF fs = {} THEN 0
    ELSE LET f == CHOOSE x \in fs : TRUE
         IN Len(c.freq_to_keys[f]) + BucketSize(c, fs \ {f})

\* C24: after every operation each live key appears exactly once across
\* all frequency buckets, namely in freq_to_keys[frequency(k)]; no bucket
\* holds a key that is not live; the buckets hold len() keys in all.
C24_LFUBuckets ==
    kind = "lfu" =>
        /\ \A k \in Live(lfu) :
              /\ Cardinality(Places(lfu, k)) = 1
              /\ \A fp \in Places(lfu, k) : fp[1] = lfu.cache[k][2]
        /\ \A k \in Keys \ Live(lfu) : Places(lfu, k) = {}
        /\ BucketSize(lfu, DOMAIN lfu.freq_to_keys) = LFU_len(lfu)

\* a live key has been removed while another key, used twice, stays in the
\* bucket of frequency 2
C24_Witness ==
    /\ kind = "lfu" /\ op.name = "remove" /\ op.hit
    /\ \E k \in Live(lfu) :
          /\ lfu.cache[k][2] = 2
          /\ Places(lfu, k) = {<<2, 1>>}

\* C25: after every operation key_to_pos has an entry for exactly the live
\* keys and freq_to_keys[f][key_to_pos[k]] == k for each live key k with
\* frequency f: the guard of remove_from_freq_list holds for every live key.
C25_LFUPositions ==
    kind = "lfu" =>
        /\ DOMAIN lfu.key_to_pos = Live(lfu)
        /\ \A k \in Live(lfu) :
              LET f == lfu.cache[k][2]
                  pos == lfu.key_to_pos[k]
              IN /\ f \in DOMAIN lfu.freq_to_keys
                 /\ pos < Len(lfu.freq_to_keys[f])
                 /\ lfu.freq_to_keys[f][pos + 1] = k

\* the key in front of another one in bucket 1 has been evicted, and the
\* new key stands behind the one that moved up
C25_Witness ==
    /\ kind = "lfu" /\ EvictingPut(op)
    /\ 1 \in DOMAIN lfu.freq_to_keys
    /\ Len(lfu.freq_to_keys[1]) >= 2
    /\ lfu.freq_to_keys[1][Len(lfu.freq_to_keys[1])] = op.key

\* the smallest frequency of a live key
MinFrequency(c) ==
    CHOOSE f \in {c.cache[k][2] : k \in Live(c)} :
        \A k \in Live(c) : f <= c.cache[k][2]

\* C26: after every put, get, get_mut and remove that leaves the cache
\* non-empty, min_freq is the smallest frequency with a non-empty bucket,
\* the minimum of frequency(k) over the live keys.
C26_LFUMinFreq ==
    (kind = "lfu" /\ op.name \in {"put", "get", "get_mut", "remove"} /\ Live(lfu) # {})
        => lfu.min_freq = MinFrequency(lfu)

\* C27: whenever len() == capacity() the bucket freq_to_keys[min_freq]
\* exists and is non-empty, and evict removes exactly one entry, also after
\* removes that emptied the bucket at min_freq.
C27_LFUEvictSucceeds ==
    (kind = "lfu" /\ LFU_len(lfu) = lfu.capacity)
        => /\ lfu.min_freq \in DOMAIN lfu.freq_to_keys
           /\ lfu.freq_to_keys[lfu.min_freq] # <<>>
           /\ LFU_len(evict(lfu)) = LFU_len(lfu) - 1

\* the put of a new key has made the cache full while the other key has
\* frequency 2: the state reached by put(1), put(2), get(1), remove(2),
\* put(3), where remove(2) left min_freq at the emptied bucket 1
C27_Witness ==
    /\ kind = "lfu" /\ LFU_len(lfu) = lfu.capacity
    /\ op.name = "put" /\ ~op.hit /\ ~op.full
    /\ \E k \in Live(lfu) : lfu.cache[k][2] = 2
    /\ Len(lfu.freq_to_keys[1]) = 1
    /\ lfu.capacity = 2

\* the keys of bucket f, none when there is no such bucket
Bucket(c, f) == IF f \in DOMAIN c.freq_to_keys THEN c.freq_to_keys[f] ELSE <<>>

\* the frequencies at which the model can hold a bucket
Freqs == 1..(MaxFreq + 1)

C29_LFUBucketsBounded ==
    kind = "lfu" =>
        /\ Cardinality(DOMAIN lfu.freq_to_keys) <= lfu.capacity
        /\ \A f \in DOMAIN lfu.freq_to_keys : lfu.freq_to_keys[f] # <<>>

\* ======================================================================
\* LRUCache::put, statement by statement
\* ======================================================================
\* put from `Box::new` to `self.push_front(node_ptr)`: the new node is in the
\* map and at the head of the list
LRU_put_insert(c, key, value) ==
    LET node_ptr == Alloc(c)
        c1 == [c EXCEPT !.nodes = MapInsert(c.nodes, node_ptr, NewNode(key, value)),
                        !.map = MapInsert(c.map, key, node_ptr)]
    IN push_front(c1, node_ptr)

\* mutant of LRU_put_finish: put returns without the capacity check
LRU_put_finish_unchecked(c) == [st |-> c, ret |-> None]

\* put from `if self.map.len() > self.capacity` to its end
LRU_put_finish(c) ==
    IF LRU_len(c) > c.capacity THEN evict_lru(c) ELSE [st |-> c, ret |-> None]

\* no call is in progress
Returned == op.name # "put_inserted"

\* put(k, v) is called: an existing key is updated and put returns; a new
\* key is inserted and put goes on to its capacity check
PutEnter(k, v) ==
    /\ kind = "lru" /\ Returned
    /\ IF k \in DOMAIN lru.map
       THEN LRUPut(k, v)
       ELSE /\ lru' = LRU_put_insert(lru, k, v)
            /\ op' = Call("put_inserted", k, v)
            /\ UNCHANGED <<kind, lfu, ret, shadow, recency, uses, others>>

\* the capacity check of put and its return
PutReturn ==
    /\ kind = "lru" /\ op.name = "put_inserted"
    /\ LET r == LRU_put_finish(lru)
       IN /\ lru' = r.st
          /\ ret' = r.ret
    /\ op' = [op EXCEPT !.name = "put"]
    /\ ShadowPut(op.key, op.val)
    /\ UNCHANGED <<kind, lfu, others>>

NextPut ==
    \/ \E k \in Keys, v \in Vals : PutEnter(k, v)
    \/ PutReturn
    \/ \E k \in Keys : Returned /\ LRUGet(k)
    \/ \E k \in Keys : Returned /\ LRURemove(k)

InitPut == Init /\ kind = "lru"

SpecPut == InitPut /\ [][NextPut]_vars

====
